---- MODULE Spec2Model ----
(***************************************************************************)
(* Software rasterizer of src/main.rs: the Renderer (colour and depth      *)
(* buffers, begin_frame, draw_line, draw_ecliptic_band, project_point,     *)
(* render / draw_mesh / rasterize_triangle), the Sky background and the    *)
(* Mesh constructors.                                                      *)
(*                                                                         *)
(* f32 values are modelled as exact rationals <<n, d>> (d > 0, lowest      *)
(* terms); +infinity is <<1, 0>>.  Rounding error and NaN are outside the  *)
(* model: every input is a small finite rational.                          *)
(***************************************************************************)
EXTENDS Integers, Sequences, FiniteSets, TLC

\* ------------------------------------------------------------------ bounds
MaxWidth == 3
MaxHeight == 3
TallHeight == 10
MaxOps == 2
MaxSegments == 3
MaxRings == 3
MaxObjLines == 2
MaxStars == 3
MaxFrames == 3
MaxStart == 1
FarReach == 20

\* -------------------------------------------------------------- f32 values
\* i32::MAX
I32_MAX == 2147483647

Abs(i) == IF i < 0 THEN -i ELSE i

RECURSIVE GCD(_, _)
GCD(a, b) == IF b = 0 THEN a ELSE GCD(b, a % b)

\* the rational n/d in lowest terms with a positive denominator
Q(n, d) ==
    LET g == GCD(Abs(n), Abs(d))
        s == IF d < 0 THEN -1 ELSE 1
    IN  <<(s * n) \div g, (s * d) \div g>>

R(i) == <<i, 1>>
INFINITY == <<1, 0>>

RAdd(a, b) == Q(a[1] * b[2] + b[1] * a[2], a[2] * b[2])
RSub(a, b) == Q(a[1] * b[2] - b[1] * a[2], a[2] * b[2])
RMul(a, b) == Q(a[1] * b[1], a[2] * b[2])
RDiv(a, b) == Q(a[1] * b[2], a[2] * b[1])
RNeg(a) == <<-a[1], a[2]>>
RAbs(a) == <<Abs(a[1]), a[2]>>
RLt(a, b) == a[1] * b[2] < b[1] * a[2]
RLe(a, b) == a[1] * b[2] <= b[1] * a[2]
RGt(a, b) == RLt(b, a)
RGe(a, b) == RLe(b, a)
RMin(a, b) == IF RLt(b, a) THEN b ELSE a
RMax(a, b) == IF RGt(b, a) THEN b ELSE a
RFloor(a) == R(a[1] \div a[2])
RCeil(a) == R(-((-a[1]) \div a[2]))
RClamp(a, lo, hi) == RMax(lo, RMin(a, hi))

\* `as i32` / `as usize` / `as u32` of an f32: truncation towards zero; the
\* unsigned casts saturate at 0.  The values of the model stay far from the
\* upper limits of the integer types.
AsI32(a) == IF a[1] >= 0 THEN a[1] \div a[2] ELSE -((-a[1]) \div a[2])
AsUsize(a) == IF a[1] <= 0 THEN 0 ELSE a[1] \div a[2]

\* the one element of a set of one element; The({e : x \in {v}}) is e with
\* x bound to the value of v
The(S) == CHOOSE v \in S : TRUE

\* the Vec of the values f[1], .., f[n]
RECURSIVE Collected(_, _)
Collected(f, n) == IF n = 0 THEN <<>> ELSE Append(Collected(f, n - 1), f[n])

\* f32::sqrt, exact on the squares of rationals (the only arguments the
\* model's scenes give it)
\* whether r * r <= n, for r * r within 32 bits
SquareFits(r, n) == r <= 46340 /\ r * r <= n
\* the largest of base, base + unit, .., base + 35 * unit whose square fits n
SqrtDigit(n, base, unit) ==
    base + unit * (CHOOSE d \in 0..35 :
                      /\ SquareFits(base + d * unit, n)
                      /\ d = 35 \/ ~SquareFits(base + (d + 1) * unit, n))
\* the integer part of the square root of n >= 0, digit by digit in base 36
ISqrt(n) == SqrtDigit(n, SqrtDigit(n, SqrtDigit(n, 0, 1296), 36), 1)
\* f32::sqrt: exact for a ratio of squares, otherwise rounded down to a
\* multiple of 1/16
RSqrt(a) ==
    IF a[2] = 0 \/ a[1] < 0 THEN a
    ELSE The({ IF p * p = a[1] /\ q * q = a[2] THEN <<p, q>>
               ELSE Q(ISqrt((a[1] \div a[2]) * 256 + ((a[1] % a[2]) * 256) \div a[2]), 16) :
               p \in {ISqrt(a[1])}, q \in {ISqrt(a[2])} })

\* -------------------------------------------------------------------- Vec3
Vec3(x, y, z) == [x |-> x, y |-> y, z |-> z]
V3(x, y, z) == Vec3(R(x), R(y), R(z))
ZERO == V3(0, 0, 0)
UP == V3(0, 1, 0)

VAdd(a, b) == Vec3(RAdd(a.x, b.x), RAdd(a.y, b.y), RAdd(a.z, b.z))
VSub(a, b) == Vec3(RSub(a.x, b.x), RSub(a.y, b.y), RSub(a.z, b.z))
VScale(a, s) == Vec3(RMul(a.x, s), RMul(a.y, s), RMul(a.z, s))
VDivS(a, s) == Vec3(RDiv(a.x, s), RDiv(a.y, s), RDiv(a.z, s))
VNeg(a) == Vec3(RNeg(a.x), RNeg(a.y), RNeg(a.z))
Dot(a, b) == RAdd(RAdd(RMul(a.x, b.x), RMul(a.y, b.y)), RMul(a.z, b.z))
Cross(a, b) ==
    Vec3(RSub(RMul(a.y, b.z), RMul(a.z, b.y)),
         RSub(RMul(a.z, b.x), RMul(a.x, b.z)),
         RSub(RMul(a.x, b.y), RMul(a.y, b.x)))
LengthSquared(a) == Dot(a, a)
Length(a) == RSqrt(LengthSquared(a))
Normalized(a) ==
    The({ IF RLe(len, R(0)) THEN ZERO ELSE VDivS(a, len) : len \in {Length(a)} })

\* normalized() up to a positive factor: the zero vector for a zero-length
\* argument, otherwise a positive multiple of the unit vector.  Used where
\* the code only looks at the sign of a dot product of the result, so that
\* vectors whose length is irrational can be handled exactly.
NormalizedDir(a) == IF RLe(LengthSquared(a), R(0)) THEN ZERO ELSE a

\* ------------------------------------------------------------------- Color
Color(r, g, b) == [r |-> r, g |-> g, b |-> b]
\* floor(a * k) for a rational a >= 0 and a natural k, by doubling, with no
\* product larger than the denominator of a
RECURSIVE ScaleFloor(_, _)
ScaleFloor(a, k) ==
    IF k = 0 THEN [q |-> 0, r |-> 0]
    ELSE LET h == ScaleFloor(a, k \div 2)
             d == a[2]
             twice == IF h.r >= d - h.r THEN [q |-> 2 * h.q + 1, r |-> h.r - (d - h.r)]
                      ELSE [q |-> 2 * h.q, r |-> h.r + h.r]
             r0 == a[1] % d
         IN  IF k % 2 = 0 THEN twice
             ELSE IF twice.r >= d - r0
                  THEN [q |-> twice.q + a[1] \div d + 1, r |-> twice.r - (d - r0)]
                  ELSE [q |-> twice.q + a[1] \div d, r |-> twice.r + r0]

\* (c.clamp(0.0, 1.0) * 255.0) as u32
Channel(c) ==
    LET v == RClamp(c, R(0), R(1))
    IN  IF v[1] <= I32_MAX \div 255 THEN AsUsize(RMul(v, R(255)))
        ELSE ScaleFloor(v, 255).q
ToU32(c) == Channel(c.r) * 65536 + Channel(c.g) * 256 + Channel(c.b)
FromU32(v) ==
    Color(Q((v \div 65536) % 256, 255), Q((v \div 256) % 256, 255), Q(v % 256, 255))
BlendAdditive(a, b) ==
    Color(RMin(RAdd(a.r, b.r), R(1)), RMin(RAdd(a.g, b.g), R(1)),
          RMin(RAdd(a.b, b.b), R(1)))
ColorLerp(a, b, t) ==
    Color(RAdd(a.r, RMul(RSub(b.r, a.r), t)),
          RAdd(a.g, RMul(RSub(b.g, a.g), t)),
          RAdd(a.b, RMul(RSub(b.b, a.b), t)))
ColorScale(c, s) == Color(RMul(c.r, s), RMul(c.g, s), RMul(c.b, s))
ColorAdd(a, b) == Color(RAdd(a.r, b.r), RAdd(a.g, b.g), RAdd(a.b, b.b))

\* ----------------------------------------------------------------- palette
\* 0.08 and the like, as exact decimals
Dec(n) == Q(n, 100)
Palette(top, bottom, star, ecl) ==
    [sky_top |-> top, sky_bottom |-> bottom, star_color |-> star, ecliptic |-> ecl]
\* Option: None and Some(v)
None == [ok |-> FALSE]
Some(v) == [ok |-> TRUE, value |-> v]

RingDescriptor(inner_radius, outer_radius, c) ==
    [inner_radius |-> inner_radius, outer_radius |-> outer_radius, color |-> c]
PlanetDescriptor(name, radius, orbit_radius, orbit_speed, rotation_speed, axial_tilt, c, orbit_color, ring) ==
    [name |-> name, radius |-> radius, orbit_radius |-> orbit_radius,
     orbit_speed |-> orbit_speed, rotation_speed |-> rotation_speed,
     axial_tilt |-> axial_tilt, color |-> c, orbit_color |-> orbit_color, ring |-> ring]

ICE_PLANETS ==
    << PlanetDescriptor("Naiad", Dec(360), R(16), Dec(42), Dec(170), Dec(18),
                        Color(Dec(25), Dec(55), Dec(95)), Color(Dec(45), Dec(75), Dec(100)),
                        None),
       PlanetDescriptor("Pyra", Dec(580), R(28), Dec(30), Dec(120), Dec(35),
                        Color(Dec(92), Dec(40), Dec(18)), Color(Dec(100), Dec(58), Dec(30)),
                        None),
       PlanetDescriptor("Terranox", Dec(860), R(44), Dec(20), Dec(95), Dec(24),
                        Color(Dec(32), Dec(65), Dec(38)), Color(Dec(52), Dec(85), Dec(50)),
                        None),
       PlanetDescriptor("Obsidian", Dec(1150), R(64), Dec(12), Dec(70), Dec(15),
                        Color(Dec(45), Dec(46), Dec(55)), Color(Dec(73), Dec(74), Dec(82)),
                        Some(RingDescriptor(R(15), R(20), Color(Dec(65), Dec(80), Dec(95))))) >>

EMBER_PLANETS ==
    << PlanetDescriptor("Cinder", Dec(420), R(20), Dec(38), Dec(140), Dec(10),
                        Color(Dec(95), Dec(50), Dec(15)), Color(Dec(100), Dec(65), Dec(25)),
                        None),
       PlanetDescriptor("Boreal", Dec(750), R(36), Dec(26), Dec(110), Dec(32),
                        Color(Dec(26), Dec(80), Dec(72)), Color(Dec(35), Dec(95), Dec(85)),
                        None),
       PlanetDescriptor("Oasis", Dec(510), R(48), Dec(18), Dec(100), Dec(28),
                        Color(Dec(30), Dec(50), Dec(95)), Color(Dec(45), Dec(65), Dec(100)),
                        None),
       PlanetDescriptor("Titanforge", R(13), R(74), Dec(10), Dec(60), Dec(12),
                        Color(Dec(55), Dec(40), Dec(35)), Color(Dec(75), Dec(55), Dec(40)),
                        Some(RingDescriptor(R(18), R(26), Color(Dec(98), Dec(86), Dec(62))))) >>

THEMES ==
    << [name |-> "Icy System",
        palette |-> Palette(Color(Dec(8), Dec(12), Dec(22)), Color(Dec(1), Dec(3), Dec(8)),
                            Color(Dec(82), Dec(93), Dec(100)), Color(Dec(20), Dec(35), Dec(45))),
        sun_color |-> Color(Dec(65), Dec(90), Dec(100)),
        light_color |-> Color(Dec(85), Dec(95), Dec(100)),
        light_intensity |-> Dec(140),
        ship_color |-> Color(Dec(70), Dec(92), Dec(100)),
        planets |-> ICE_PLANETS],
       [name |-> "Ember ",
        palette |-> Palette(Color(Dec(18), Dec(7), Dec(2)), Color(Dec(5), Dec(2), Dec(12)),
                            Color(Dec(100), Dec(85), Dec(70)), Color(Dec(40), Dec(20), Dec(15))),
        sun_color |-> Color(Dec(100), Dec(75), Dec(45)),
        light_color |-> Color(Dec(100), Dec(75), Dec(55)),
        light_intensity |-> Dec(120),
        ship_color |-> Color(Dec(95), Dec(80), Dec(65)),
        planets |-> EMBER_PLANETS] >>

\* ------------------------------------------------------------- Vec4 / Mat4
Vec4(x, y, z, w) == [x |-> x, y |-> y, z |-> z, w |-> w]
Xyz(v) == Vec3(v.x, v.y, v.z)

Row(a, b, c, d) == <<R(a), R(b), R(c), R(d)>>
Identity == <<Row(1, 0, 0, 0), Row(0, 1, 0, 0), Row(0, 0, 1, 0), Row(0, 0, 0, 1)>>

Translation(v) ==
    <<<<R(1), R(0), R(0), v.x>>, <<R(0), R(1), R(0), v.y>>,
      <<R(0), R(0), R(1), v.z>>, Row(0, 0, 0, 1)>>

Scale(v) ==
    <<<<v.x, R(0), R(0), R(0)>>, <<R(0), v.y, R(0), R(0)>>,
      <<R(0), R(0), v.z, R(0)>>, Row(0, 0, 0, 1)>>

\* Mat4::perspective, given f = 1 / tan(fov / 2)
Perspective(f, aspect, near, far) ==
    <<<<RDiv(f, aspect), R(0), R(0), R(0)>>,
      <<R(0), f, R(0), R(0)>>,
      <<R(0), R(0), RDiv(RAdd(far, near), RSub(near, far)),
        RDiv(RMul(R(2), RMul(far, near)), RSub(near, far))>>,
      Row(0, 0, -1, 0)>>

LookAt(eye, target, up) ==
    LET forward == Normalized(VSub(target, eye))
        right == Normalized(Cross(forward, up))
        new_up == Cross(right, forward)
    IN  <<<<right.x, right.y, right.z, RNeg(Dot(right, eye))>>,
          <<new_up.x, new_up.y, new_up.z, RNeg(Dot(new_up, eye))>>,
          <<RNeg(forward.x), RNeg(forward.y), RNeg(forward.z), Dot(forward, eye)>>,
          Row(0, 0, 0, 1)>>

RowDot(r, v) ==
    RAdd(RAdd(RAdd(RMul(r[1], v.x), RMul(r[2], v.y)), RMul(r[3], v.z)), RMul(r[4], v.w))
MatVec(m, v) == Vec4(RowDot(m[1], v), RowDot(m[2], v), RowDot(m[3], v), RowDot(m[4], v))
MatMul(a, b) ==
    The({ Collected([row \in 1..4 |->
                        Collected([col \in 1..4 |->
                                      RAdd(RAdd(RAdd(RMul(m[row][1], n[1][col]),
                                                     RMul(m[row][2], n[2][col])),
                                                RMul(m[row][3], n[3][col])),
                                           RMul(m[row][4], n[4][col]))], 4)], 4) :
          m \in {a}, n \in {b} })

\* ------------------------------------------------------------------- state
VARIABLES
    width,      \* Renderer.width
    height,     \* Renderer.height
    color,      \* Renderer.color: flat row-major sequence of packed pixels
    depth,      \* Renderer.depth: flat row-major sequence of depths
    sky,        \* Renderer.sky: [stars, width, height]
    palette,    \* Renderer.palette
    status,     \* "ok", or "panic" once an index was out of range
    ops,        \* calls made since the last begin_frame (bounded by MaxOps)
    frags,      \* the fragments that reached the depth test since begin_frame
    lines,      \* draw_line / draw_ecliptic_band calls made since begin_frame
    traces,     \* per scene of the menu, what render computes without reading
                \* the buffers (a function of the scene, width and height), with
                \* the world position of every vertex and the scene's matrix
    last,       \* the last call: its name, arguments, the buffers before it,
                \* the pixels (x, y) it indexed and what it returned
    mesh,       \* the mesh constructor under study and its outcome
    app         \* the locals of main: theme_index, active_theme, planets, sun,
                \* light, ship_color, camera and warp, with what the last
                \* iteration of its loop read and handed to the renderer

vars ==
    <<width, height, color, depth, sky, palette, status, ops, frags, lines, traces, last,
      mesh, app>>

\* a buffer access at pixel (x, y): the flat index the code computes
Idx(w, x, y) == y * w + x
InRange(buf, idx) == idx >= 0 /\ idx < Len(buf)
Put(buf, idx, v) == [buf EXCEPT ![idx + 1] = v]
Pixels(w, h) == (0..(w - 1)) \X (0..(h - 1))

\* --------------------------------------------------------------------- Sky
StarPixel(x, y, intensity) == [x |-> x, y |-> y, intensity |-> intensity]

\* next_f32 lies in [0, 1], both ends included, so Sky::new places a star at
\* x in 0..width, y in 0..height with an intensity in [1/2, 1].  The star
\* fields of the model are drawn from that range.
SkyNew(w, h, stars) == [stars |-> stars, width |-> w, height |-> h]

\* ---------------------------------------------------------------------- Lcg
\* a u64 is kept as its eight bytes, least significant first
\* (of a seed below 2^31 here)
U64(n) == [i \in 1..8 |-> IF i > 4 THEN 0 ELSE (n \div (256 ^ (i - 1))) % 256]

\* 6364136223846793005, the multiplier of Lcg::next_f32
LCG_MULTIPLIER == <<45, 127, 149, 76, 45, 244, 81, 88>>

\* the sum of a[i] * b[k - i] over the bytes that meet in byte k of the product
RECURSIVE MulDigit(_, _, _, _)
MulDigit(a, b, k, i) ==
    IF i > k THEN 0 ELSE a[i + 1] * b[k - i + 1] + MulDigit(a, b, k, i + 1)

\* u64::wrapping_mul: the low eight bytes of the product
RECURSIVE WrappingMul(_, _, _, _)
WrappingMul(a, b, k, carry) ==
    IF k = 8 THEN <<>>
    ELSE LET t == MulDigit(a, b, k, 0) + carry
         IN  <<t % 256>> \o WrappingMul(a, b, k + 1, t \div 256)

\* u64::wrapping_add of a small number
RECURSIVE WrappingAdd(_, _, _)
WrappingAdd(a, n, k) ==
    IF k > 8 THEN <<>>
    ELSE <<(a[k] + n) % 256>> \o WrappingAdd(a, (a[k] + n) \div 256, k + 1)

\* Lcg::new
LcgNew(seed) == [state |-> U64(seed)]

\* n >> s rounded to the nearest, ties to even: the rounding of f32 arithmetic
RoundShift(n, s) ==
    LET p == 2 ^ s
        q == n \div p
        r == n % p
    IN  IF s = 0 THEN n
        ELSE IF r > p \div 2 \/ (r = p \div 2 /\ q % 2 = 1) THEN q + 1 ELSE q

\* the low bits an integer loses in the 24-bit significand of an f32
ExcessBits(n) == CHOOSE s \in 0..7 : n \div (2 ^ s) < 2 ^ 24 /\ (s = 0 \/ n \div (2 ^ (s - 1)) >= 2 ^ 24)

\* an f32 m * 2^e with m < 2^24 (or m = 2^24 after a carry of the rounding)
Float(m, e) == [m |-> m, e |-> e]

\* ((state >> 32) as f32): the upper four bytes, rounded to 24 bits
HighAsF32(state) ==
    LET hi == state[8] * 65536 + state[7] * 256 + state[6]
        lo == state[5]
    IN  IF hi >= 2 ^ 23
        THEN Float(IF lo > 128 \/ (lo = 128 /\ hi % 2 = 1) THEN hi + 1 ELSE hi, 8)
        ELSE LET v == hi * 256 + lo
             IN  Float(RoundShift(v, ExcessBits(v)), ExcessBits(v))

\* Lcg::next_f32: the new state and the value returned; u32::MAX as f32 is 2^32
NextF32(rng) ==
    LET state == WrappingAdd(WrappingMul(rng.state, LCG_MULTIPLIER, 0, 0), 1, 1)
        high == HighAsF32(state)
    IN  [rng |-> [state |-> state], value |-> Float(high.m, high.e - 32)]

\* (f * n as f32) as usize for a value f of next_f32 and a buffer size n
ScaleAsUsize(f, n) ==
    LET p == f.m * n
        s == ExcessBits(p)
        m == RoundShift(p, s)
        k == -(f.e + s)
    IN  IF k <= 0 THEN m * (2 ^ (-k)) ELSE IF k > 30 THEN 0 ELSE m \div (2 ^ k)

\* 0.5 + f * 0.5 for a value f of next_f32, in units of 2^-24
Intensity(f) ==
    LET k == -(f.e + 23)
    IN  Q(2 ^ 23 + (IF k > 30 THEN 0 ELSE RoundShift(f.m, k)), 2 ^ 24)

\* the loop of Sky::new: three draws for each star
RECURSIVE SkyStars(_, _, _, _, _)
SkyStars(rng, stars, count, w, h) ==
    IF Len(stars) >= count THEN stars
    ELSE LET dx == NextF32(rng)
             dy == NextF32(dx.rng)
             di == NextF32(dy.rng)
         IN  SkyStars(di.rng,
                      Append(stars, StarPixel(ScaleAsUsize(dx.value, w),
                                              ScaleAsUsize(dy.value, h),
                                              Intensity(di.value))),
                      count, w, h)

\* Sky::new(width, height, count), seeded with 42
SkySeeded(w, h, count) == SkyNew(w, h, SkyStars(LcgNew(42), <<>>, count, w, h))

\* GradientColor with the ends of the lerp exchanged
GradientColorSwapped(s, pal, y) ==
    LET hm == IF s.height > 1 THEN s.height ELSE 1
    IN  ToU32(ColorLerp(pal.sky_bottom, pal.sky_top, Q(y, hm)))

\* first loop of Sky::paint: the gradient, row by row
GradientColor(s, pal, y) ==
    LET hm == IF s.height > 1 THEN s.height ELSE 1
        t == Q(y, hm)
    IN  ToU32(ColorLerp(pal.sky_top, pal.sky_bottom, t))

StarColor(pal, star) == ToU32(ColorScale(pal.star_color, star.intensity))

\* StarVisible with `>` for `>=`
StarVisibleInclusive(s, star) == ~(star.x > s.width \/ star.y > s.height)

StarVisible(s, star) == ~(star.x >= s.width \/ star.y >= s.height)

\* second loop of Sky::paint: the stars, in list order
RECURSIVE PaintStars(_, _, _, _)
PaintStars(s, buf, pal, k) ==
    IF k > Len(s.stars) THEN [buffer |-> buf, panic |-> FALSE]
    ELSE LET star == s.stars[k]
         IN  IF ~StarVisible(s, star) THEN PaintStars(s, buf, pal, k + 1)
             ELSE LET idx == Idx(s.width, star.x, star.y)
                  IN  IF ~InRange(buf, idx) THEN [buffer |-> buf, panic |-> TRUE]
                      ELSE PaintStars(s, Put(buf, idx, StarColor(pal, star)), pal, k + 1)

SkyPaintAccessed(s) ==
    Pixels(s.width, s.height)
        \cup { <<s.stars[k].x, s.stars[k].y>> :
                 k \in { j \in 1..Len(s.stars) : StarVisible(s, s.stars[j]) } }

\* GradientRow that leaves the cells something was drawn into
GradientRowKeep(buf, w, y, base) ==
    [i \in 1..Len(buf) |-> IF (i - 1) \div w = y /\ buf[i] = 0 THEN base ELSE buf[i]]

\* for x in 0..self.width { buffer[y * self.width + x] = base.to_u32() }
GradientRow(buf, w, y, base) ==
    [i \in 1..Len(buf) |-> IF (i - 1) \div w = y THEN base ELSE buf[i]]

\* for y in 0..self.height
RECURSIVE Gradient(_, _, _, _)
Gradient(s, buf, pal, y) ==
    IF y >= s.height THEN buf
    ELSE Gradient(s, GradientRow(buf, s.width, y, GradientColor(s, pal, y)), pal, y + 1)

\* Sky::paint
SkyPaint(s, buf, pal) ==
    LET done == PaintStars(s, Gradient(s, buf, pal, 0), pal, 1)
    IN  [buffer |-> done.buffer,
         panic |-> done.panic \/ s.width * s.height > Len(buf),
         accessed |-> SkyPaintAccessed(s)]

\* --------------------------------------------------------------- draw_line
Vec2(x, y) == [x |-> x, y |-> y]

\* the iterations of the loop of draw_line that the model follows: more than
\* any line between points within FarReach of the buffer takes
LineFuel == 4 * FarReach

\* i32 arithmetic: a sum, difference or absolute value outside the range of
\* i32 panics in a build with overflow checks and wraps around in one without
I32_MIN == -I32_MAX - 1
AddOverflows(a, b) ==
    \/ a > 0 /\ b > I32_MAX - a
    \/ a < 0 /\ b < I32_MIN - a
WrappingAdd32(a, b) ==
    IF a > 0 /\ b > I32_MAX - a THEN ((a - I32_MAX) + (b - I32_MAX)) - 2
    ELSE IF a < 0 /\ b < I32_MIN - a THEN ((a + I32_MAX) + (b + I32_MAX)) + 2
    ELSE a + b
SubOverflows(a, b) == IF b = I32_MIN THEN a >= 0 ELSE AddOverflows(a, -b)
WrappingSub32(a, b) ==
    IF b = I32_MIN THEN (IF a >= 0 THEN I32_MIN + a ELSE (a + I32_MAX) + 1)
    ELSE WrappingAdd32(a, -b)
WrappingAbs32(a) == IF a = I32_MIN THEN a ELSE Abs(a)

\* LineIter with `else if e2 <= dx`: a step along one axis only
LineIterElseIf(s, ln) ==
    LET inside == s.x0 >= 0 /\ s.x0 < width /\ s.y0 >= 0 /\ s.y0 < height
        idx == Idx(width, s.x0, s.y0)
        arrived == s.x0 = ln.x1 /\ s.y0 = ln.y1
        e2 == WrappingAdd32(s.err, s.err)
        stepx == e2 >= ln.dy
        stepy == ~stepx /\ e2 <= ln.dx
        overflow ==
            \/ AddOverflows(s.err, s.err)
            \/ stepx /\ (AddOverflows(s.err, ln.dy) \/ AddOverflows(s.x0, ln.sx))
            \/ stepy /\ (AddOverflows(s.err, ln.dx) \/ AddOverflows(s.y0, ln.sy))
    IN  IF inside /\ ~InRange(s.buffer, idx)
        THEN [s EXCEPT !.panic = TRUE, !.done = TRUE,
                       !.path = Append(@, <<s.x0, s.y0>>)]
        ELSE [buffer |-> IF inside THEN Put(s.buffer, idx, ln.color) ELSE s.buffer,
              path |-> IF inside THEN Append(s.path, <<s.x0, s.y0>>) ELSE s.path,
              panic |-> ~arrived /\ overflow /\ ln.overflow_checks,
              done |-> arrived \/ (overflow /\ ln.overflow_checks),
              overflowed |-> s.overflowed \/ (~arrived /\ overflow),
              steps |-> IF arrived THEN s.steps ELSE s.steps + 1,
              x0 |-> IF stepx THEN WrappingAdd32(s.x0, ln.sx) ELSE s.x0,
              y0 |-> IF stepy THEN WrappingAdd32(s.y0, ln.sy) ELSE s.y0,
              err |-> IF stepx THEN WrappingAdd32(s.err, ln.dy)
                      ELSE IF stepy THEN WrappingAdd32(s.err, ln.dx) ELSE s.err]

\* one iteration of the loop of draw_line; ln holds the values fixed before it
LineIter(s, ln) ==
    LET inside == s.x0 >= 0 /\ s.x0 < width /\ s.y0 >= 0 /\ s.y0 < height
        idx == Idx(width, s.x0, s.y0)
        arrived == s.x0 = ln.x1 /\ s.y0 = ln.y1
        e2 == WrappingAdd32(s.err, s.err)
        stepx == e2 >= ln.dy
        stepy == e2 <= ln.dx
        errx == IF stepx THEN WrappingAdd32(s.err, ln.dy) ELSE s.err
        overflow ==
            \/ AddOverflows(s.err, s.err)
            \/ stepx /\ (AddOverflows(s.err, ln.dy) \/ AddOverflows(s.x0, ln.sx))
            \/ stepy /\ (AddOverflows(errx, ln.dx) \/ AddOverflows(s.y0, ln.sy))
    IN  IF inside /\ ~InRange(s.buffer, idx)
        THEN [s EXCEPT !.panic = TRUE, !.done = TRUE,
                       !.path = Append(@, <<s.x0, s.y0>>)]
        ELSE [buffer |-> IF inside THEN Put(s.buffer, idx, ln.color) ELSE s.buffer,
              path |-> IF inside THEN Append(s.path, <<s.x0, s.y0>>) ELSE s.path,
              panic |-> ~arrived /\ overflow /\ ln.overflow_checks,
              done |-> arrived \/ (overflow /\ ln.overflow_checks),
              overflowed |-> s.overflowed \/ (~arrived /\ overflow),
              steps |-> IF arrived THEN s.steps ELSE s.steps + 1,
              x0 |-> IF stepx THEN WrappingAdd32(s.x0, ln.sx) ELSE s.x0,
              y0 |-> IF stepy THEN WrappingAdd32(s.y0, ln.sy) ELSE s.y0,
              err |-> IF stepy THEN WrappingAdd32(errx, ln.dx) ELSE errx]

\* the loop of draw_line, followed for at most ln.fuel iterations: a loop that
\* has not left by then is still running (done = FALSE)
RECURSIVE LineLoop(_, _)
LineLoop(s, ln) ==
    IF s.done \/ s.steps >= ln.fuel THEN s ELSE LineLoop(LineIter(s, ln), ln)

\* Renderer::draw_line on the colour buffer buf, in a build with or without
\* overflow checks
DrawLineBuilt(buf, start, end, c, overflow_checks) ==
    LET x0 == AsI32(start.x)
        y0 == AsI32(start.y)
        x1 == AsI32(end.x)
        y1 == AsI32(end.y)
        dx == WrappingAbs32(WrappingSub32(x1, x0))
        sx == IF x0 < x1 THEN 1 ELSE -1
        ady == WrappingAbs32(WrappingSub32(y1, y0))
        dy == IF ady = I32_MIN THEN ady ELSE -ady
        sy == IF y0 < y1 THEN 1 ELSE -1
        overflow ==
            \/ SubOverflows(x1, x0) \/ WrappingSub32(x1, x0) = I32_MIN
            \/ SubOverflows(y1, y0) \/ WrappingSub32(y1, y0) = I32_MIN
            \/ AddOverflows(dx, dy)
        first == [buffer |-> buf, path |-> <<>>, panic |-> overflow /\ overflow_checks,
                  done |-> overflow /\ overflow_checks, overflowed |-> overflow,
                  steps |-> 0, x0 |-> x0, y0 |-> y0, err |-> WrappingAdd32(dx, dy)]
    IN  LineLoop(first,
                 [x1 |-> x1, y1 |-> y1, dx |-> dx, dy |-> dy, sx |-> sx, sy |-> sy,
                  color |-> ToU32(c), overflow_checks |-> overflow_checks,
                  fuel |-> LineFuel])

\* the build the frames of the other sections run: where nothing overflows both
\* builds do the same
DrawLineOn(buf, start, end, c) == DrawLineBuilt(buf, start, end, c, TRUE)

Range(seq) == { seq[i] : i \in 1..Len(seq) }

\* Renderer::draw_ecliptic_band
BandRow(buf, y, overlay) ==
    [i \in 1..Len(buf) |->
        IF (i - 1) \div width = y
        THEN ToU32(BlendAdditive(FromU32(buf[i]), overlay))
        ELSE buf[i]]

RECURSIVE BandLoop(_, _, _, _, _, _)
BandLoop(buf, acc, y, stop, center, band_height) ==
    IF y >= stop THEN [buffer |-> buf, accessed |-> acc, panic |-> FALSE]
    ELSE IF y >= height THEN BandLoop(buf, acc, y + 1, stop, center, band_height)
    ELSE LET d == RDiv(RAbs(RSub(R(y), R(center))), R(band_height))
             t == RSub(R(1), RMul(d, d))
             overlay == ColorScale(palette.ecliptic, RMul(Dec(35), t))
         IN  IF width > 0 /\ ~InRange(buf, Idx(width, width - 1, y))
             THEN [buffer |-> buf, accessed |-> acc, panic |-> TRUE]
             ELSE BandLoop(BandRow(buf, y, overlay),
                           acc \cup { <<x, y>> : x \in 0..(width - 1) },
                           y + 1, stop, center, band_height)

DrawEclipticBandOn(buf) ==
    LET band_height == AsUsize(RMul(R(height), Dec(10)))
        center == height \div 2
        done == BandLoop(buf, {}, center - band_height, center + band_height,
                         center, band_height)
    IN  [done EXCEPT !.panic = @ \/ center < band_height]

\* ------------------------------------------------------------ vertex stage
W_EPS == Q(1, 1000)

\* Option::None of project_point and of the vertex stage
Absent == [absent |-> TRUE]

\* project_point without the flip of y
ProjectPointUnflipped(position, vp) ==
    LET clip == MatVec(vp, Vec4(position.x, position.y, position.z, R(1)))
    IN  IF RLt(RAbs(clip.w), W_EPS) THEN Absent
        ELSE LET inv_w == RDiv(R(1), clip.w)
                 ndc_x == RMul(clip.x, inv_w)
                 ndc_y == RMul(clip.y, inv_w)
                 ndc_z == RMul(clip.z, inv_w)
             IN  IF RGt(ndc_z, R(1)) \/ RLt(ndc_z, R(-1)) THEN Absent
                 ELSE [absent |-> FALSE,
                       x |-> RMul(RAdd(RMul(ndc_x, Q(1, 2)), Q(1, 2)), RSub(R(width), R(1))),
                       y |-> RMul(RAdd(RMul(ndc_y, Q(1, 2)), Q(1, 2)), RSub(R(height), R(1)))]

\* Renderer::project_point
ProjectPoint(position, vp) ==
    LET clip == MatVec(vp, Vec4(position.x, position.y, position.z, R(1)))
    IN  IF RLt(RAbs(clip.w), W_EPS) THEN Absent
        ELSE LET inv_w == RDiv(R(1), clip.w)
                 ndc_x == RMul(clip.x, inv_w)
                 ndc_y == RMul(clip.y, inv_w)
                 ndc_z == RMul(clip.z, inv_w)
             IN  IF RGt(ndc_z, R(1)) \/ RLt(ndc_z, R(-1)) THEN Absent
                 ELSE [absent |-> FALSE,
                       x |-> RMul(RAdd(RMul(ndc_x, Q(1, 2)), Q(1, 2)), RSub(R(width), R(1))),
                       y |-> RMul(RSub(R(1), RAdd(RMul(ndc_y, Q(1, 2)), Q(1, 2))),
                                  RSub(R(height), R(1)))]

\* VertexStage without the test of ndc.z: only |clip.w| < W_EPS rejects
VertexStageAnyDepth(instance, position, normal, vp) ==
    LET world_pos == MatVec(instance.transform,
                            Vec4(position.x, position.y, position.z, R(1)))
        world == Xyz(world_pos)
        clip == MatVec(vp, Vec4(world.x, world.y, world.z, R(1)))
    IN  IF RLt(RAbs(clip.w), W_EPS) THEN Absent
        ELSE LET inv_w == RDiv(R(1), clip.w)
                 ndc_x == RMul(clip.x, inv_w)
                 ndc_y == RMul(clip.y, inv_w)
                 ndc_z == RMul(clip.z, inv_w)
                 screen_x == RMul(RAdd(RMul(ndc_x, Q(1, 2)), Q(1, 2)), RSub(R(width), R(1)))
                 screen_y == RMul(RSub(R(1), RAdd(RMul(ndc_y, Q(1, 2)), Q(1, 2))),
                                  RSub(R(height), R(1)))
                 normal_world ==
                     Normalized(Xyz(MatVec(instance.transform,
                                           Vec4(normal.x, normal.y, normal.z, R(0)))))
             IN  [absent |-> FALSE,
                  screen |-> Vec3(screen_x, screen_y, ndc_z),
                  world |-> world,
                  normal |-> normal_world,
                  inv_w |-> inv_w]

\* the per-vertex loop body of draw_mesh
VertexStage(instance, position, normal, vp) ==
    LET world_pos == MatVec(instance.transform,
                            Vec4(position.x, position.y, position.z, R(1)))
        world == Xyz(world_pos)
        clip == MatVec(vp, Vec4(world.x, world.y, world.z, R(1)))
    IN  IF RLt(RAbs(clip.w), W_EPS) THEN Absent
        ELSE LET inv_w == RDiv(R(1), clip.w)
                 ndc_x == RMul(clip.x, inv_w)
                 ndc_y == RMul(clip.y, inv_w)
                 ndc_z == RMul(clip.z, inv_w)
             IN  IF RGt(ndc_z, R(1)) \/ RLt(ndc_z, R(-1)) THEN Absent
                 ELSE LET screen_x == RMul(RAdd(RMul(ndc_x, Q(1, 2)), Q(1, 2)),
                                           RSub(R(width), R(1)))
                          screen_y == RMul(RSub(R(1), RAdd(RMul(ndc_y, Q(1, 2)), Q(1, 2))),
                                           RSub(R(height), R(1)))
                          normal_world ==
                              Normalized(Xyz(MatVec(instance.transform,
                                                    Vec4(normal.x, normal.y, normal.z, R(0)))))
                      IN  [absent |-> FALSE,
                           screen |-> Vec3(screen_x, screen_y, ndc_z),
                           world |-> world,
                           normal |-> normal_world,
                           inv_w |-> inv_w]

\* world_pos.xyz() of vertex k of the instance's mesh
WorldPosition(instance, k) ==
    LET p == instance.mesh.vertices[k]
    IN  Xyz(MatVec(instance.transform, Vec4(p.x, p.y, p.z, R(1))))

\* the first loop of draw_mesh: zip(vertices, normals) stops at the shorter list
Transformed(instance, vp) ==
    [k \in 1..(IF Len(instance.mesh.vertices) < Len(instance.mesh.normals)
               THEN Len(instance.mesh.vertices) ELSE Len(instance.mesh.normals)) |->
        VertexStage(instance, instance.mesh.vertices[k], instance.mesh.normals[k], vp)]

\* ------------------------------------------------------ rasterize_triangle
Edge(a, b, c) ==
    RSub(RMul(RSub(c.x, a.x), RSub(b.y, a.y)), RMul(RSub(c.y, a.y), RSub(b.x, a.x)))

AREA_EPS == Q(1, 10000)
AMBIENT == Q(1, 5)

Min3(a, b, c) == RMin(RMin(a, b), c)
Max3(a, b, c) == RMax(RMax(a, b), c)

\* the clamped bounding box, as the four i32 values of the code
BBox(v0, v1, v2) ==
    [min_x |-> AsI32(RMax(RFloor(Min3(v0.screen.x, v1.screen.x, v2.screen.x)), R(0))),
     max_x |-> AsI32(RMin(RCeil(Max3(v0.screen.x, v1.screen.x, v2.screen.x)),
                          RSub(R(width), R(1)))),
     min_y |-> AsI32(RMax(RFloor(Min3(v0.screen.y, v1.screen.y, v2.screen.y)), R(0))),
     max_y |-> AsI32(RMin(RCeil(Max3(v0.screen.y, v1.screen.y, v2.screen.y)),
                          RSub(R(height), R(1))))]

BBoxEmpty(bb) == bb.min_x >= bb.max_x \/ bb.min_y >= bb.max_y

\* the three edge-function values at the centre of pixel (x, y)
Weights(v0, v1, v2, x, y) ==
    LET p == Vec3(RAdd(R(x), Q(1, 2)), RAdd(R(y), Q(1, 2)), R(0))
    IN  <<Edge(v1.screen, v2.screen, p), Edge(v2.screen, v0.screen, p),
          Edge(v0.screen, v1.screen, p)>>

Covered(w) ==
    \/ RLt(w[1], R(0)) /\ RLt(w[2], R(0)) /\ RLt(w[3], R(0))
    \/ RGt(w[1], R(0)) /\ RGt(w[2], R(0)) /\ RGt(w[3], R(0))

\* barycentric weights, w_sum, depth and shaded colour of the fragment at (x, y)
Fragment(v0, v1, v2, area, x, y, material, light) ==
    LET e == Weights(v0, v1, v2, x, y)
        w0 == RDiv(e[1], area)
        w1 == RDiv(e[2], area)
        w2 == RDiv(e[3], area)
        w_sum == RAdd(RAdd(RMul(v0.inv_w, w0), RMul(v1.inv_w, w1)), RMul(v2.inv_w, w2))
        ndc_depth ==
            RDiv(RAdd(RAdd(RMul(RMul(v0.screen.z, v0.inv_w), w0),
                           RMul(RMul(v1.screen.z, v1.inv_w), w1)),
                      RMul(RMul(v2.screen.z, v2.inv_w), w2)),
                 w_sum)
        normal ==
            Normalized(VDivS(VAdd(VAdd(VScale(v0.normal, RMul(v0.inv_w, w0)),
                                       VScale(v1.normal, RMul(v1.inv_w, w1))),
                                  VScale(v2.normal, RMul(v2.inv_w, w2))),
                             w_sum))
        diffuse == RMax(Dot(normal, VNeg(light.direction)), R(0))
        shaded ==
            ColorAdd(ColorScale(material.color,
                                RAdd(AMBIENT, RMul(diffuse, light.intensity))),
                     ColorScale(light.color, material.emissive))
    IN  [w_sum |-> w_sum,
         depth |-> IF RLe(w_sum, R(0)) THEN R(0)
                   ELSE RAdd(RMul(ndc_depth, Q(1, 2)), Q(1, 2)),
         color |-> IF RLe(w_sum, R(0)) THEN 0 ELSE ToU32(shaded)]

\* BackFacing with the test `normal.dot(view_dir) < 0.0`
BackFacingStrict(v0, v1, v2, camera) ==
    LET view_dir == NormalizedDir(VSub(camera.position, v0.world))
        normal == NormalizedDir(Cross(VSub(v1.world, v0.world), VSub(v2.world, v0.world)))
    IN  RLt(Dot(normal, view_dir), R(0))

\* the back-face test of draw_mesh; both vectors are normalized in the code and
\* only the sign of their dot product is used
BackFacing(v0, v1, v2, camera) ==
    LET view_dir == NormalizedDir(VSub(camera.position, v0.world))
        normal == NormalizedDir(Cross(VSub(v1.world, v0.world), VSub(v2.world, v0.world)))
    IN  RLe(Dot(normal, view_dir), R(0))

\* ------------------------------------------------------------ render traces
\* rasterize_triangle reads the buffers at one place only, the depth test.  All
\* it computes before that test is a function of the scene and of width and
\* height: it is computed once per scene, kept in `traces`, and the loops of
\* render below walk it in the code's order.

\* the body of the pixel loop up to the depth test
PixelEvent(v0, v1, v2, area, x, y, material, light) ==
    IF ~Covered(Weights(v0, v1, v2, x, y))
    THEN [kind |-> "outside", x |-> x, y |-> y, depth |-> R(0), color |-> 0]
    ELSE LET frag == Fragment(v0, v1, v2, area, x, y, material, light)
         IN  IF RLe(frag.w_sum, R(0))
             THEN [kind |-> "w_sum", x |-> x, y |-> y, depth |-> R(0), color |-> 0]
             ELSE [kind |-> "frag", x |-> x, y |-> y,
                   depth |-> frag.depth, color |-> frag.color]

\* rasterize_triangle up to the depth test: the early returns, then the pixels of
\* for y in min_y..=max_y { for x in min_x..=max_x { ... } } in loop order
TriangleTrace(v0, v1, v2, material, light) ==
    LET bb == BBox(v0, v1, v2)
        area == Edge(v0.screen, v1.screen, v2.screen)
        cols == bb.max_x - bb.min_x + 1
        rows == bb.max_y - bb.min_y + 1
    IN  IF BBoxEmpty(bb) THEN [outcome |-> "bbox", pixels |-> <<>>]
        ELSE IF RLt(RAbs(area), AREA_EPS) THEN [outcome |-> "area", pixels |-> <<>>]
        ELSE [outcome |-> "raster",
              pixels |-> [i \in 1..(cols * rows) |->
                            PixelEvent(v0, v1, v2, area,
                                       bb.min_x + ((i - 1) % cols),
                                       bb.min_y + ((i - 1) \div cols),
                                       material, light)]]

\* the body of the triangle loop of draw_mesh up to the call of rasterize_triangle
MeshTriangle(transformed, instance, camera, light, k) ==
    LET indices == instance.mesh.indices[k]
        count == Len(transformed)
        v0 == transformed[indices[1] + 1]
        v1 == transformed[indices[2] + 1]
        v2 == transformed[indices[3] + 1]
        oob == [outcome |-> "oob", pixels |-> <<>>]
        absent == [outcome |-> "absent", pixels |-> <<>>]
    IN  IF indices[1] >= count THEN oob
        ELSE IF v0.absent THEN absent
        ELSE IF indices[2] >= count THEN oob
        ELSE IF v1.absent THEN absent
        ELSE IF indices[3] >= count THEN oob
        ELSE IF v2.absent THEN absent
        ELSE IF BackFacing(v0, v1, v2, camera) THEN [outcome |-> "culled", pixels |-> <<>>]
        ELSE TriangleTrace(v0, v1, v2, instance.material, light)

InstanceTrace(instance, vp, camera, light) ==
    LET transformed == Transformed(instance, vp)
    IN  [transformed |-> transformed,
         triangles |-> [k \in 1..Len(instance.mesh.indices) |->
                          MeshTriangle(transformed, instance, camera, light, k)],
         world |-> [k \in 1..Len(instance.mesh.vertices) |-> WorldPosition(instance, k)],
         vp |-> vp]

RenderTrace(sc) ==
    [i \in 1..Len(sc.instances) |->
        InstanceTrace(sc.instances[i], sc.vp, sc.camera, sc.light)]

\* ------------------------------------------------------------------ render
\* RasterPixel with the depth test `depth > self.depth[idx]`: a fragment as deep
\* as the cell overwrites it
RasterPixelOverwriteTies(b, ev, tag) ==
    IF ev.kind # "frag" THEN b
    ELSE IF ~InRange(b.depth, Idx(width, ev.x, ev.y)) THEN [b EXCEPT !.panic = TRUE]
    ELSE LET seen == [b EXCEPT !.accessed = @ \cup {<<ev.x, ev.y>>},
                               !.frags = Append(@, [inst |-> tag[1], tri |-> tag[2],
                                                    x |-> ev.x, y |-> ev.y,
                                                    depth |-> ev.depth, color |-> ev.color])]
         IN  IF RGt(ev.depth, b.depth[Idx(width, ev.x, ev.y) + 1]) THEN seen
             ELSE [seen EXCEPT !.depth = Put(@, Idx(width, ev.x, ev.y), ev.depth),
                               !.color = Put(@, Idx(width, ev.x, ev.y), ev.color)]

\* RasterPixel without the write of the colour cell
RasterPixelDepthOnly(b, ev, tag) ==
    IF ev.kind # "frag" THEN b
    ELSE IF ~InRange(b.depth, Idx(width, ev.x, ev.y)) THEN [b EXCEPT !.panic = TRUE]
    ELSE LET seen == [b EXCEPT !.accessed = @ \cup {<<ev.x, ev.y>>},
                               !.frags = Append(@, [inst |-> tag[1], tri |-> tag[2],
                                                    x |-> ev.x, y |-> ev.y,
                                                    depth |-> ev.depth, color |-> ev.color])]
         IN  IF RGe(ev.depth, b.depth[Idx(width, ev.x, ev.y) + 1]) THEN seen
             ELSE [seen EXCEPT !.depth = Put(@, Idx(width, ev.x, ev.y), ev.depth)]

\* the depth test and the two writes of rasterize_triangle; b holds the buffers,
\* the fragments that reached the test and the pixels indexed so far
RasterPixel(b, ev, tag) ==
    IF ev.kind # "frag" THEN b
    ELSE IF ~InRange(b.depth, Idx(width, ev.x, ev.y)) THEN [b EXCEPT !.panic = TRUE]
    ELSE IF RGe(ev.depth, b.depth[Idx(width, ev.x, ev.y) + 1])
         THEN [b EXCEPT !.accessed = @ \cup {<<ev.x, ev.y>>},
                        !.frags = Append(@, [inst |-> tag[1], tri |-> tag[2], x |-> ev.x,
                                             y |-> ev.y, depth |-> ev.depth,
                                             color |-> ev.color])]
         ELSE [b EXCEPT !.accessed = @ \cup {<<ev.x, ev.y>>},
                        !.frags = Append(@, [inst |-> tag[1], tri |-> tag[2], x |-> ev.x,
                                             y |-> ev.y, depth |-> ev.depth,
                                             color |-> ev.color]),
                        !.depth = Put(@, Idx(width, ev.x, ev.y), ev.depth),
                        !.color = Put(@, Idx(width, ev.x, ev.y), ev.color)]

RECURSIVE RasterLoop(_, _, _, _)
RasterLoop(b, pixels, tag, i) ==
    IF b.panic \/ i > Len(pixels) THEN b
    ELSE RasterLoop(RasterPixel(b, pixels[i], tag), pixels, tag, i + 1)

\* Renderer::rasterize_triangle
RasterizeTriangle(b, tri, tag) ==
    IF tri.outcome \in {"bbox", "area"} THEN b ELSE RasterLoop(b, tri.pixels, tag, 1)

\* DrawTriangle unwrapping its vertices: a rejected vertex panics
DrawTriangleUnwrap(b, tri, tag) ==
    IF tri.outcome \in {"oob", "absent"} THEN [b EXCEPT !.panic = TRUE]
    ELSE IF tri.outcome = "culled" THEN b
    ELSE RasterizeTriangle(b, tri, tag)

\* one iteration of the triangle loop of draw_mesh
DrawTriangle(b, tri, tag) ==
    IF tri.outcome = "oob" THEN [b EXCEPT !.panic = TRUE]
    ELSE IF tri.outcome \in {"absent", "culled"} THEN b
    ELSE RasterizeTriangle(b, tri, tag)

RECURSIVE TriangleLoop(_, _, _, _)
TriangleLoop(b, triangles, inst, k) ==
    IF b.panic \/ k > Len(triangles) THEN b
    ELSE TriangleLoop(DrawTriangle(b, triangles[k], <<inst, k>>), triangles, inst, k + 1)

\* Renderer::draw_mesh
DrawMesh(b, itrace, inst) ==
    LET done == TriangleLoop(b, itrace.triangles, inst, 1)
    IN  IF done.panic THEN done ELSE [done EXCEPT !.drawn = Append(@, inst)]

\* Renderer::render: for instance in instances { self.draw_mesh(...) }
RECURSIVE RenderLoop(_, _, _)
RenderLoop(b, trace, i) ==
    IF b.panic \/ i > Len(trace) THEN b
    ELSE RenderLoop(DrawMesh(b, trace[i], i), trace, i + 1)

RenderOn(col, dep, trace) ==
    RenderLoop([color |-> col, depth |-> dep, frags |-> <<>>, accessed |-> {},
                drawn |-> <<>>, panic |-> FALSE],
               trace, 1)

\* ------------------------------------------------------------------ scenes
Mesh(vertices, normals, indices) ==
    [vertices |-> vertices, normals |-> normals, indices |-> indices]
Material(c, emissive) == [color |-> c, emissive |-> emissive]
RenderInstance(m, transform, material) ==
    [mesh |-> m, transform |-> transform, material |-> material]
Light(direction, c, intensity) ==
    [direction |-> direction, color |-> c, intensity |-> intensity]
Camera(position) == [position |-> position]

\* ------------------------------------------------------- Mesh constructors
EmptyMesh == Mesh(<<>>, <<>>, <<>>)

\* x as f32 / n as f32 for 0 <= x <= n; 0.0 / 0.0 is NaN
NAN == <<0, 0>>
Ratio(x, n) == IF n = 0 THEN NAN ELSE Q(x, n)

\* the point (cos(phi) sin(theta), cos(theta), sin(phi) sin(theta)) of uv_sphere
\* with phi = u * TAU and theta = v * PI, kept by u and v
SpherePoint(u, v) == [u |-> u, v |-> v]

\* SphereRow with the range 0..segments
RECURSIVE SphereRowExclusive(_, _, _, _, _)
SphereRowExclusive(m, y, x, segments, rings) ==
    IF x >= segments THEN m
    ELSE SphereRowExclusive(
             [m EXCEPT
                !.normals = Append(@, SpherePoint(Ratio(x, segments), Ratio(y, rings))),
                !.vertices = Append(@, SpherePoint(Ratio(x, segments), Ratio(y, rings)))],
             y, x + 1, segments, rings)

\* for x in 0..=segments { normals.push(..); vertices.push(..) }
RECURSIVE SphereRow(_, _, _, _, _)
SphereRow(m, y, x, segments, rings) ==
    IF x > segments THEN m
    ELSE SphereRow([m EXCEPT
                      !.normals = Append(@, SpherePoint(Ratio(x, segments), Ratio(y, rings))),
                      !.vertices = Append(@, SpherePoint(Ratio(x, segments), Ratio(y, rings)))],
                   y, x + 1, segments, rings)

\* for y in 0..=rings
RECURSIVE SphereRows(_, _, _, _)
SphereRows(m, y, segments, rings) ==
    IF y > rings THEN m
    ELSE SphereRows(SphereRow(m, y, 0, segments, rings), y + 1, segments, rings)

\* for x in 0..segments { indices.push([i0, i2, i1]); indices.push([i1, i2, i3]) }
RECURSIVE SphereQuadRow(_, _, _, _)
SphereQuadRow(m, y, x, segments) ==
    IF x >= segments THEN m
    ELSE LET stride == segments + 1
             i0 == y * stride + x
             i1 == i0 + 1
             i2 == i0 + stride
             i3 == i2 + 1
         IN  SphereQuadRow([m EXCEPT !.indices = @ \o <<<<i0, i2, i1>>, <<i1, i2, i3>>>>],
                           y, x + 1, segments)

\* for y in 0..rings
RECURSIVE SphereQuads(_, _, _, _)
SphereQuads(m, y, segments, rings) ==
    IF y >= rings THEN m
    ELSE SphereQuads(SphereQuadRow(m, y, 0, segments), y + 1, segments, rings)

\* Mesh::uv_sphere
UvSphere(segments, rings) ==
    SphereQuads(SphereRows(EmptyMesh, 0, segments, rings), 0, segments, rings)

\* the point (cos(angle) * radius, 0, sin(angle) * radius) of ring with
\* angle = a * TAU, kept by a and the radius
RingPoint(a, radius) == [a |-> a, radius |-> radius]

\* for i in 0..=segments: outer and inner vertex, facing up and facing down
RECURSIVE RingVertices(_, _, _, _, _)
RingVertices(m, i, inner_radius, outer_radius, segments) ==
    IF i > segments THEN m
    ELSE LET outer == RingPoint(Ratio(i, segments), outer_radius)
             inner == RingPoint(Ratio(i, segments), inner_radius)
         IN  RingVertices([m EXCEPT !.vertices = @ \o <<outer, inner, outer, inner>>,
                                    !.normals = @ \o <<UP, UP, VNeg(UP), VNeg(UP)>>],
                          i + 1, inner_radius, outer_radius, segments)

\* for i in 0..segments: two triangles facing up and two facing down
RECURSIVE RingQuads(_, _, _)
RingQuads(m, i, segments) ==
    IF i >= segments THEN m
    ELSE LET base == i * 4
             next == base + 4
             base_down == base + 2
             next_down == next + 2
         IN  RingQuads([m EXCEPT !.indices =
                            @ \o << <<base, next, base + 1>>,
                                    <<base + 1, next, next + 1>>,
                                    <<base_down, base_down + 1, next_down>>,
                                    <<base_down + 1, next_down + 1, next_down>> >>],
                       i + 1, segments)

\* Mesh::ring
Ring(inner_radius, outer_radius, segments) ==
    RingQuads(RingVertices(EmptyMesh, 0, inner_radius, outer_radius, segments), 0, segments)

\* f32::sin and f32::cos of the angle a * TAU, 0 <= a <= 1.  The values of the
\* code are the sine rounded to the 24 bits of an f32; the model's are the
\* rational approximation 16 h (1 - h) / (5 - 4 h (1 - h)) of sin(h * PI),
\* 0 <= h <= 1, rounded to a multiple of 1/16 as every f32 result is here:
\* exact at every multiple of a quarter turn and of a twelfth of a turn, within
\* 0.04 of the sine elsewhere, and with the symmetries of the sine.
Rounded(a) == IF a = NAN THEN NAN ELSE RDiv(RFloor(RAdd(RMul(a, R(16)), Q(1, 2))), R(16))

HalfSin(h) ==
    LET k == RMul(h, RSub(R(1), h))
    IN  Rounded(RDiv(RMul(R(16), k), RSub(R(5), RMul(R(4), k))))

Sin(a) ==
    IF a = NAN THEN NAN
    ELSE IF RLe(a, Q(1, 2)) THEN HalfSin(RMul(R(2), a))
    ELSE RNeg(HalfSin(RSub(RMul(R(2), a), R(1))))

Cos(a) ==
    IF a = NAN THEN NAN
    ELSE IF RLe(a, Q(3, 4)) THEN Sin(RAdd(a, Q(1, 4)))
    ELSE Sin(RSub(a, Q(3, 4)))

\* f32 * f32 with NaN operands, rounded as the sine is
NMul(a, b) == IF a = NAN \/ b = NAN THEN NAN ELSE Rounded(RMul(a, b))

\* the coordinates of a vertex of uv_sphere: phi = u * TAU, theta = v * PI
SpherePosition(p) ==
    LET theta == IF p.v = NAN THEN NAN ELSE RDiv(p.v, R(2))
    IN  Vec3(NMul(Cos(p.u), Sin(theta)), Cos(theta), NMul(Sin(p.u), Sin(theta)))

\* the coordinates of a vertex of ring: angle = a * TAU
RingPosition(p) == Vec3(NMul(Cos(p.a), p.radius), R(0), NMul(Sin(p.a), p.radius))

\* the coordinates of a vertex of a mesh
Position(p) ==
    IF "u" \in DOMAIN p THEN SpherePosition(p)
    ELSE IF "a" \in DOMAIN p THEN RingPosition(p)
    ELSE p

\* (v1.world - v0.world).cross(v2.world - v0.world) of draw_mesh for the
\* triangle t of the untransformed mesh m
WindingNormal(m, t) ==
    LET v0 == Position(m.vertices[t[1] + 1])
        v1 == Position(m.vertices[t[2] + 1])
        v2 == Position(m.vertices[t[3] + 1])
    IN  Cross(VSub(v1, v0), VSub(v2, v0))

\* A line of an OBJ source is its first word and the words after it; a word is
\* the sequence of its parts between '/' characters.  Reading a line can fail.
ObjLine(head, rest) == [io |-> "ok", head |-> head, rest |-> rest]
IoError == [io |-> "error", head |-> "", rest |-> <<>>]
Word(text) == <<text>>

\* the texts that str::parse::<usize> accepts, with their values, among those of
\* the model's sources
USIZE_TEXTS == <<"0", "1", "2", "3", "4">>
\* str::parse::<f32> accepts those and these
F32_TEXTS == <<<<"-1", R(-1)>>, <<"1.5", Q(3, 2)>>>>

ParseUsize(text) ==
    IF \E i \in 1..Len(USIZE_TEXTS) : USIZE_TEXTS[i] = text
    THEN Some((CHOOSE i \in 1..Len(USIZE_TEXTS) : USIZE_TEXTS[i] = text) - 1)
    ELSE None

\* a word with a '/' in it is no number
ParseF32(word) ==
    IF Len(word) # 1 THEN None
    ELSE IF ParseUsize(word[1]).ok THEN Some(R(ParseUsize(word[1]).value))
    ELSE IF \E i \in 1..Len(F32_TEXTS) : F32_TEXTS[i][1] = word[1]
    THEN Some((CHOOSE t \in Range(F32_TEXTS) : t[1] = word[1])[2])
    ELSE None

\* usize::MAX, what 0 - 1 wraps to without overflow checks.  It is 2^64 - 1 in
\* the program; the model's integers end here, and all the code does with the
\* value is compare it with a length.
USIZE_MAX == 2147483647

\* parts.next().unwrap_or("0").parse() for the k-th word after the head
Coordinate(line, k) == IF k <= Len(line.rest) THEN ParseF32(line.rest[k]) ELSE Some(R(0))

\* the face indices of a face line: the first part of every word that parses as
\* usize, less one; a word that does not parse is dropped
RECURSIVE FaceOf(_, _, _, _)
FaceOf(face, rest, k, overflow_checks) ==
    IF k > Len(rest) THEN [panic |-> FALSE, face |-> face]
    ELSE LET idx == ParseUsize(rest[k][1])
         IN  IF ~idx.ok THEN FaceOf(face, rest, k + 1, overflow_checks)
             ELSE IF idx.value = 0 /\ overflow_checks THEN [panic |-> TRUE, face |-> face]
             ELSE FaceOf(Append(face, IF idx.value = 0 THEN USIZE_MAX ELSE idx.value - 1),
                         rest, k + 1, overflow_checks)

\* Fan as a strip: every triangle starts one vertex further
FanStrip(face) ==
    IF Len(face) >= 3
    THEN [tri \in 1..(Len(face) - 2) |-> <<face[tri], face[tri + 1], face[tri + 2]>>]
    ELSE <<>>

\* for tri in 1..face.len() - 1 { face_indices.push([face[0], face[tri], face[tri + 1]]) }
Fan(face) ==
    IF Len(face) >= 3
    THEN [tri \in 1..(Len(face) - 2) |-> <<face[1], face[tri + 1], face[tri + 2]>>]
    ELSE <<>>

\* the body of the loop over the lines of from_obj
ReadLine(st, line, overflow_checks) ==
    IF line.io = "error" THEN [st EXCEPT !.result = "err"]
    ELSE IF line.head = "v" /\ line.rest # <<>>
    THEN LET x == Coordinate(line, 1)
             y == Coordinate(line, 2)
             z == Coordinate(line, 3)
         IN  IF ~x.ok \/ ~y.ok \/ ~z.ok THEN [st EXCEPT !.result = "err"]
             ELSE [st EXCEPT !.positions = Append(@, Vec3(x.value, y.value, z.value))]
    ELSE IF line.head = "f"
    THEN LET parsed == FaceOf(<<>>, line.rest, 1, overflow_checks)
         IN  IF parsed.panic THEN [st EXCEPT !.result = "panic"]
             ELSE [st EXCEPT !.face_indices = @ \o Fan(parsed.face)]
    ELSE st

RECURSIVE ReadLines(_, _, _, _)
ReadLines(st, reader, k, overflow_checks) ==
    IF st.result # "ok" \/ k > Len(reader) THEN st
    ELSE ReadLines(ReadLine(st, reader[k], overflow_checks), reader, k + 1, overflow_checks)

\* FaceNormals reading positions with get(): a triangle with an index out of
\* range is passed over
RECURSIVE FaceNormalsUnchecked(_, _, _, _)
FaceNormalsUnchecked(normals, positions, face_indices, k) ==
    IF k > Len(face_indices) THEN [panic |-> FALSE, normals |-> normals]
    ELSE LET tri == face_indices[k]
         IN  IF \E n \in 1..3 : tri[n] >= Len(positions)
             THEN FaceNormalsUnchecked(normals, positions, face_indices, k + 1)
             ELSE LET a == positions[tri[1] + 1]
                      b == positions[tri[2] + 1]
                      c == positions[tri[3] + 1]
                      normal == Normalized(Cross(VSub(b, a), VSub(c, a)))
                      n1 == [normals EXCEPT ![tri[1] + 1] = VAdd(@, normal)]
                      n2 == [n1 EXCEPT ![tri[2] + 1] = VAdd(@, normal)]
                      n3 == [n2 EXCEPT ![tri[3] + 1] = VAdd(@, normal)]
                  IN  FaceNormalsUnchecked(n3, positions, face_indices, k + 1)

\* for tri in &face_indices: the face normal added to its three vertex normals
RECURSIVE FaceNormals(_, _, _, _)
FaceNormals(normals, positions, face_indices, k) ==
    IF k > Len(face_indices) THEN [panic |-> FALSE, normals |-> normals]
    ELSE LET tri == face_indices[k]
         IN  IF \E n \in 1..3 : tri[n] >= Len(positions)
             THEN [panic |-> TRUE, normals |-> normals]
             ELSE LET a == positions[tri[1] + 1]
                      b == positions[tri[2] + 1]
                      c == positions[tri[3] + 1]
                      normal == Normalized(Cross(VSub(b, a), VSub(c, a)))
                      n1 == [normals EXCEPT ![tri[1] + 1] = VAdd(@, normal)]
                      n2 == [n1 EXCEPT ![tri[2] + 1] = VAdd(@, normal)]
                      n3 == [n2 EXCEPT ![tri[3] + 1] = VAdd(@, normal)]
                  IN  FaceNormals(n3, positions, face_indices, k + 1)

\* Mesh::from_obj: result "ok" with the mesh, "err" for a returned error, or
\* "panic".  A source is its lines and whether File::open succeeds.
FromObj(source, overflow_checks) ==
    LET failed(result) == [result |-> result, mesh |-> EmptyMesh]
    IN  IF ~source.opens THEN failed("err")
        ELSE LET read == ReadLines([positions |-> <<>>, face_indices |-> <<>>,
                                    result |-> "ok"], source.lines, 1, overflow_checks)
                 summed == FaceNormals([i \in 1..Len(read.positions) |-> ZERO],
                                       read.positions, read.face_indices, 1)
             IN  IF read.result # "ok" THEN failed(read.result)
                 ELSE IF summed.panic THEN failed("panic")
                 ELSE [result |-> "ok",
                       mesh |-> Mesh(read.positions,
                                     [i \in 1..Len(summed.normals) |->
                                        IF RGt(LengthSquared(summed.normals[i]), R(0))
                                        THEN Normalized(summed.normals[i])
                                        ELSE summed.normals[i]],
                                     read.face_indices)]

\* ------------------------------------------------------------ scene meshes
TOWARDS == V3(0, 0, -1)

\* a square in the plane z = 0 whose winding faces -z, as two triangles
QuadMesh ==
    Mesh(<<V3(-1, -1, 0), V3(-1, 1, 0), V3(1, -1, 0), V3(1, 1, 0)>>,
         <<TOWARDS, TOWARDS, TOWARDS, TOWARDS>>,
         <<<<0, 1, 2>>, <<2, 1, 3>>>>)

\* the same square wound the other way
BackQuadMesh ==
    Mesh(QuadMesh.vertices, QuadMesh.normals, <<<<0, 2, 1>>, <<2, 3, 1>>>>)

\* a triangle that recedes from z = -1 to z = 1 across the view
SlantedMesh ==
    Mesh(<<Vec3(R(-1), R(-1), Q(-1, 4)), Vec3(R(-1), R(1), Q(-1, 4)),
           Vec3(R(1), R(-1), Q(1, 4))>>,
         <<TOWARDS, TOWARDS, TOWARDS>>,
         <<<<0, 1, 2>>>>)

\* one drawable triangle among triangles that each reference a rejected vertex:
\* vertex 3 has clip.w = 0, vertex 4 lies behind the camera, vertex 5 beyond far
ClippedMesh ==
    Mesh(<<V3(-4, -4, -2), V3(-4, 4, -2), V3(4, -4, -2),
           V3(0, 0, -4), V3(0, 0, -10), V3(4, 4, 3)>>,
         <<TOWARDS, TOWARDS, TOWARDS, TOWARDS, TOWARDS, TOWARDS>>,
         <<<<3, 1, 2>>, <<0, 4, 2>>, <<0, 1, 2>>, <<2, 1, 5>>>>)

\* three vertices in a line on screen (zero screen area) that face the camera in
\* world space, then a drawable triangle, then a triangle in the plane
\* x + z = -1, which holds the camera position (3, 3, -4) of its scene
EdgeOnMesh ==
    Mesh(<<V3(-1, 1, 0), V3(0, 0, 1), V3(1, -1, 0),
           V3(-1, -1, 0), V3(-1, 1, 0), V3(1, -1, 0), V3(0, -1, -1)>>,
         <<TOWARDS, TOWARDS, TOWARDS, TOWARDS, TOWARDS, TOWARDS, TOWARDS>>,
         <<<<0, 1, 2>>, <<3, 4, 5>>, <<3, 4, 6>>>>)

\* a triangle past the right edge of the view, facing the camera: under the
\* identity matrix its x runs from 1.1 to 1.9 in NDC, over the last column of
\* pixels and beyond it, and its y from the top of the view to below the bottom
SliverMesh ==
    Mesh(<<Vec3(Q(11, 10), R(1), R(0)), Vec3(Q(19, 10), R(1), R(0)),
           Vec3(Q(3, 2), R(-2), R(0))>>,
         <<TOWARDS, TOWARDS, TOWARDS>>,
         <<<<0, 1, 2>>>>)

RED == Material(Color(Dec(90), Dec(10), Dec(10)), Dec(5))
BLUE == Material(Color(Dec(10), Dec(10), Dec(90)), Dec(5))
GREEN == Material(Color(Dec(10), Dec(50), Dec(10)), Dec(85))

Place(z, size) == MatMul(Translation(Vec3(R(0), R(0), z)), Scale(Vec3(size, size, size)))

Near(material) == RenderInstance(QuadMesh, Place(R(-2), R(4)), material)
Far(material) == RenderInstance(QuadMesh, Place(R(0), R(4)), material)
Slanted(material) == RenderInstance(SlantedMesh, Place(R(-1), R(4)), material)
Flat(material) == RenderInstance(QuadMesh, Identity, material)

EYE == V3(0, 0, -4)
\* projection * view of a camera at EYE looking along +z (yaw = 0, pitch = 0),
\* fov = 90 degrees, aspect 1, near 1, far 5
ViewProjection ==
    MatMul(Perspective(R(1), R(1), R(1), R(5)), LookAt(EYE, VAdd(EYE, V3(0, 0, 1)), UP))
\* w = -1 everywhere: inv_w < 0, so w_sum <= 0 at every pixel
Mirror == <<Row(-1, 0, 0, 0), Row(0, -1, 0, 0), Row(0, 0, -1, 0), Row(0, 0, 0, -1)>>

Sun(i) == Light(V3(0, 0, 1), THEMES[i].light_color, THEMES[i].light_intensity)

Scene(instances, vp, camera, light) ==
    [instances |-> instances, vp |-> vp, camera |-> camera, light |-> light]

\* the scenes handed to render: two quads at different depths in both draw
\* orders, coplanar quads and a slanted triangle through them, a mesh with rejected
\* vertices and a back-facing mesh before a drawable one, an edge-on triangle, a
\* view-projection that makes every inv_w negative, and a triangle over the last
\* column of pixels
Scenes ==
    << Scene(<<Near(RED), Far(BLUE)>>, ViewProjection, Camera(EYE), Sun(1)),
       Scene(<<Far(BLUE), Near(RED)>>, ViewProjection, Camera(EYE), Sun(1)),
       Scene(<<Slanted(GREEN), Near(RED), Near(BLUE), Far(GREEN)>>,
             ViewProjection, Camera(EYE), Sun(2)),
       Scene(<<RenderInstance(ClippedMesh, Identity, GREEN),
               RenderInstance(BackQuadMesh, Place(R(-2), R(4)), RED), Far(BLUE)>>,
             ViewProjection, Camera(EYE), Sun(1)),
       Scene(<<RenderInstance(EdgeOnMesh, Identity, RED)>>,
             Identity, Camera(V3(3, 3, -4)), Sun(2)),
       Scene(<<Flat(RED), Flat(BLUE)>>, Mirror, Camera(EYE), Sun(1)),
       Scene(<<RenderInstance(SliverMesh, Identity, GREEN)>>,
             Identity, Camera(EYE), Sun(1)) >>

\* ---------------------------------------------------------------- Renderer
Fill(n, v) == [i \in 1..n |-> v]

\* ------------------------------------------------------- main: the scene
\* the segments of a planet's ring
RING_SEGMENTS == 72

\* Planet::from_descriptor; the mesh of the ring is kept as the call that
\* builds it
FromDescriptor(desc) ==
    [name |-> desc.name, radius |-> desc.radius, orbit_radius |-> desc.orbit_radius,
     orbit_speed |-> desc.orbit_speed, rotation_speed |-> desc.rotation_speed,
     axial_tilt |-> desc.axial_tilt, orbit_angle |-> R(0), rotation |-> R(0),
     position |-> ZERO, transform |-> Identity, color |-> desc.color,
     orbit_color |-> desc.orbit_color,
     ring |-> IF desc.ring.ok
              THEN Some([mesh |-> [fn |-> "ring",
                                   args |-> [inner_radius |-> desc.ring.value.inner_radius,
                                             outer_radius |-> desc.ring.value.outer_radius,
                                             segments |-> RING_SEGMENTS]],
                         transform |-> Identity,
                         color |-> desc.ring.value.color])
              ELSE None]

BuildPlanets(descriptors) ==
    Collected([i \in 1..Len(descriptors) |-> FromDescriptor(descriptors[i])],
              Len(descriptors))

BuildSun(theme) ==
    [position |-> ZERO, radius |-> R(14), rotation |-> R(0),
     transform |-> Scale(V3(14, 14, 14)), color |-> theme.sun_color]

\* Camera::new; fov = PI / 3.5 is a seventh of a turn
CameraNew(position) == [position |-> position, yaw |-> Q(1, 2), pitch |-> R(0), fov |-> Q(1, 7)]

NoFrame == [op |-> "none"]

\* the locals of main when its loop is entered; theme_index counts from 0 and
\* THEMES from 1
MainStart ==
    [theme_index |-> 0,
     active_theme |-> THEMES[1],
     planets |-> BuildPlanets(THEMES[1].planets),
     sun |-> BuildSun(THEMES[1]),
     light |-> Light(NormalizedDir(Vec3(Q(-2, 5), R(-1), Q(-1, 5))),
                     THEMES[1].light_color, THEMES[1].light_intensity),
     ship_color |-> THEMES[1].ship_color,
     camera |-> [CameraNew(V3(0, 8, -40)) EXCEPT !.yaw = R(0), !.pitch = Dec(8)],
     warp |-> None,
     frames |-> 0,
     frame |-> NoFrame]

NoMesh == [fn |-> "none"]

\* width, height and star field of the renderers under study: empty buffers, a
\* single pixel, the full size with stars on and past the last row and column,
\* and a narrow buffer tall enough for the ecliptic band to have rows
Setups ==
    { <<0, 0, <<>>>>,
      <<MaxWidth, 0, <<StarPixel(0, 0, R(1))>>>>,
      <<1, 1, <<StarPixel(1, 0, Q(3, 4)), StarPixel(0, 1, Q(3, 4))>>>>,
      <<MaxWidth, MaxHeight,
        <<StarPixel(1, 1, Q(1, 2)), StarPixel(MaxWidth, 0, R(1)), StarPixel(1, 1, R(1)),
          StarPixel(MaxWidth - 1, MaxHeight - 1, Q(3, 4)), StarPixel(0, MaxHeight, R(1))>>>>,
      <<2, TallHeight, <<StarPixel(1, TallHeight \div 2, R(1))>>>> }

\* Renderer::new
NewRenderer ==
    /\ \E s \in Setups :
        /\ width = s[1]
        /\ height = s[2]
        /\ sky = SkyNew(s[1], s[2], s[3])
    /\ color = Fill(width * height, 0)
    /\ depth = Fill(width * height, INFINITY)
    /\ palette = THEMES[1].palette
    /\ status = "ok"
    /\ ops = 0
    /\ frags = <<>>
    /\ lines = 0
    /\ last = [op |-> "new"]

Init ==
    /\ NewRenderer
    /\ traces = [i \in 1..Len(Scenes) |-> RenderTrace(Scenes[i])]
    /\ mesh = NoMesh
    /\ app = MainStart

\* the record of a call, kept in `last`
Called(name, args, accessed) ==
    [op |-> name, args |-> args, accessed |-> accessed,
     prevColor |-> color, prevDepth |-> depth, path |-> <<>>, frags |-> <<>>,
     drawn |-> <<>>, result |-> Absent]

\* Renderer::begin_frame
BeginFrame ==
    /\ status = "ok"
    /\ LET painted == SkyPaint(sky, color, palette)
       IN  /\ depth' = Fill(Len(depth), INFINITY)
           /\ color' = painted.buffer
           /\ status' = IF painted.panic THEN "panic" ELSE "ok"
           /\ last' = [Called("begin_frame",
                              [dirty |-> color # painted.buffer
                                           \/ depth # Fill(Len(depth), INFINITY)],
                              painted.accessed)
                       EXCEPT !.prevColor = <<>>, !.prevDepth = <<>>]
    /\ ops' = 0
    /\ frags' = <<>>
    /\ lines' = 0
    /\ UNCHANGED <<width, height, sky, palette, traces, mesh, app>>

\* Renderer::set_palette
SetPalette ==
    /\ status = "ok"
    /\ ops < MaxOps
    /\ \E i \in 1..Len(THEMES) :
        /\ THEMES[i].palette # palette
        /\ palette' = THEMES[i].palette
    /\ ops' = ops + 1
    /\ last' = Called("set_palette", <<>>, {})
    /\ UNCHANGED <<width, height, color, depth, sky, status, frags, lines, traces, mesh, app>>

DrawLineCall(start, end, c) ==
    /\ status = "ok"
    /\ LET done == DrawLineOn(color, start, end, c)
       IN  /\ color' = done.buffer
           /\ status' = IF done.panic THEN "panic" ELSE "ok"
           /\ last' = [Called("draw_line", [start |-> start, end |-> end, color |-> c],
                              Range(done.path))
                       EXCEPT !.path = done.path]
    /\ lines' = lines + 1
    /\ UNCHANGED <<width, height, depth, sky, palette, frags, traces, mesh, app>>

\* the colour of the orbit lines
ORBIT_COLOR == Color(Dec(90), Dec(80), Dec(100))

\* the lines the frame draws: inside, crossing and outside the buffer
LineMenu(w, h) ==
    LET P(x, y) == Vec2(Q(x, 2), Q(y, 2))
    IN  { <<P(0, 0), P(2 * w - 2, 0)>>,
          <<P(1, 1), P(2 * w - 1, 2 * h - 1)>>,
          <<P(-3, 2), P(2 * w + 2, 3)>>,
          <<P(2 * w, 2 * h + 3), P(0, -4)>>,
          <<P(2 * w, 0), P(2 * w + 2, 0)>> }

DrawLine ==
    /\ ops < MaxOps
    /\ ops' = ops + 1
    /\ \E l \in LineMenu(width, height) : DrawLineCall(l[1], l[2], ORBIT_COLOR)

DrawEclipticBand ==
    /\ status = "ok"
    /\ ops < MaxOps
    /\ LET done == DrawEclipticBandOn(color)
       IN  /\ color' = done.buffer
           /\ status' = IF done.panic THEN "panic" ELSE "ok"
           /\ last' = Called("draw_ecliptic_band", <<>>, done.accessed)
    /\ ops' = ops + 1
    /\ lines' = lines + 1
    /\ UNCHANGED <<width, height, depth, sky, palette, frags, traces, mesh, app>>

\* Renderer::render of scene i of Scenes
Render ==
    /\ status = "ok"
    /\ ops < MaxOps
    /\ \E i \in 1..Len(Scenes) :
        LET done == RenderOn(color, depth, traces[i])
        IN  /\ color' = done.color
            /\ depth' = done.depth
            /\ status' = IF done.panic THEN "panic" ELSE "ok"
            /\ frags' = frags \o done.frags
            /\ last' = [Called("render", i, done.accessed)
                        EXCEPT !.frags = done.frags, !.drawn = done.drawn]
    /\ ops' = ops + 1
    /\ UNCHANGED <<width, height, sky, palette, lines, traces, mesh, app>>

ProjectPointCall(position, vp) ==
    /\ status = "ok"
    /\ last' = [Called("project_point", [position |-> position, vp |-> vp], {})
                EXCEPT !.result = ProjectPoint(position, vp)]
    /\ UNCHANGED <<width, height, color, depth, sky, palette, status, frags, lines,
                   traces, mesh, app>>

\* the orbit points of the frame: in view, and at clip.w = 0
ProjectPointStep ==
    /\ ops < MaxOps
    /\ ops' = ops + 1
    /\ \E p \in {V3(4, 0, -2), V3(0, 0, -4)} : ProjectPointCall(p, ViewProjection)

Next ==
    \/ BeginFrame
    \/ SetPalette
    \/ DrawLine
    \/ DrawEclipticBand
    \/ Render
    \/ ProjectPointStep

Spec == Init /\ [][Next]_vars

\* ------------------------------------------------------------- line frames
\* frames that draw one line over the painted background: every pair of
\* endpoints on the pixel grid from one pixel outside the buffer, either whole or
\* half-way between pixels
LineStyles == { <<R(0), ORBIT_COLOR>>, <<Q(1, 2), Color(Dec(20), Dec(60), Dec(30))>> }

LineFrame ==
    /\ last.op = "begin_frame"
    /\ ops' = ops + 1
    /\ \E x0, x1 \in -1..width, y0, y1 \in -1..height, st \in LineStyles :
          DrawLineCall(Vec2(RAdd(R(x0), st[1]), RAdd(R(y0), st[1])),
                       Vec2(RAdd(R(x1), st[1]), RAdd(R(y1), st[1])), st[2])

NextLine ==
    \/ BeginFrame
    \/ LineFrame

SpecLine == Init /\ [][NextLine]_vars

\* ------------------------------------------------------------ mesh loading
\* the leading vertex lines of the sources: "v 0 0 0", "v 1 0 0", "v 0 1"
HeaderLines ==
    << ObjLine("v", <<Word("0"), Word("0"), Word("0")>>),
       ObjLine("v", <<Word("1"), Word("0"), Word("0")>>),
       ObjLine("v", <<Word("0"), Word("1")>>) >>

\* the lines that follow them
BodyLines ==
    { ObjLine("v", <<Word("1.5"), Word("-1"), Word("0"), Word("abc")>>),
      ObjLine("v", <<Word("1"), Word("abc"), Word("0")>>),
      ObjLine("v", <<Word("2"), <<"1", "2">>>>),
      ObjLine("vn", <<Word("0"), Word("1"), Word("0")>>),
      ObjLine("f", <<Word("1"), Word("2"), Word("3")>>),
      ObjLine("f", <<Word("3"), Word("2"), Word("1"), Word("4")>>),
      ObjLine("f", <<<<"1", "1", "1">>, <<"2", "", "2">>, <<"3">>>>),
      ObjLine("f", <<Word("1"), Word("2"), Word("abc"), Word("3")>>),
      ObjLine("f", <<Word("1"), Word("-1"), Word("1.5"), <<"", "2">>>>),
      ObjLine("f", <<Word("0"), Word("1"), Word("2")>>),
      ObjLine("f", <<Word("0")>>),
      IoError }

Sources ==
    { [opens |-> o, lines |-> SubSeq(HeaderLines, 1, n) \o tail] :
        o \in BOOLEAN, n \in 0..Len(HeaderLines),
        tail \in UNION { [1..k -> BodyLines] : k \in 0..MaxObjLines } }

NewUvSphere ==
    /\ mesh = NoMesh
    /\ \E segments \in 0..MaxSegments, rings \in 0..MaxRings :
        mesh' = [fn |-> "uv_sphere", args |-> [segments |-> segments, rings |-> rings],
                 result |-> "ok", mesh |-> UvSphere(segments, rings)]
    /\ UNCHANGED <<width, height, color, depth, sky, palette, status, ops, frags, lines,
                   traces, last, app>>

NewRing ==
    /\ mesh = NoMesh
    /\ \E segments \in 0..MaxSegments :
        mesh' = [fn |-> "ring", args |-> [segments |-> segments],
                 result |-> "ok", mesh |-> Ring(Q(3, 2), Q(5, 2), segments)]
    /\ UNCHANGED <<width, height, color, depth, sky, palette, status, ops, frags, lines,
                   traces, last, app>>

\* Mesh::from_obj, built with or without overflow checks
LoadObj ==
    /\ mesh = NoMesh
    /\ \E source \in Sources, overflow_checks \in BOOLEAN :
        LET loaded == FromObj(source, overflow_checks)
        IN  mesh' = [fn |-> "from_obj",
                     args |-> [source |-> source, overflow_checks |-> overflow_checks],
                     result |-> loaded.result, mesh |-> loaded.mesh]
    /\ UNCHANGED <<width, height, color, depth, sky, palette, status, ops, frags, lines,
                   traces, last, app>>

InitMesh == Init /\ width = 0 /\ height = 0

NextMesh ==
    \/ NewUvSphere
    \/ NewRing
    \/ LoadObj

SpecMesh == InitMesh /\ [][NextMesh]_vars

\* ------------------------------------------------------ projection frames
\* project_point of the world position of a vertex of an instance of a scene,
\* under the scene's matrix
ProjectVertex ==
    /\ ops < MaxOps
    /\ ops' = ops + 1
    /\ \E i \in 1..Len(traces) :
        \E j \in 1..Len(traces[i]) :
            \E k \in 1..Len(traces[i][j].world) :
                ProjectPointCall(traces[i][j].world[k], traces[i][j].vp)

NextProject ==
    \/ BeginFrame
    \/ ProjectVertex

SpecProject == Init /\ [][NextProject]_vars

\* ------------------------------------------------------------- seeded skies
\* Renderer::new with the star field of Sky::new: the sizes with stars to show
\* and every count of stars up to MaxStars
SkySizes == { <<MaxWidth, MaxHeight>>, <<2, TallHeight>> }

NewSeededRenderer ==
    /\ \E s \in SkySizes, count \in 0..MaxStars :
        /\ width = s[1]
        /\ height = s[2]
        /\ sky = SkySeeded(s[1], s[2], count)
    /\ color = Fill(width * height, 0)
    /\ depth = Fill(width * height, INFINITY)
    /\ palette = THEMES[1].palette
    /\ status = "ok"
    /\ ops = 0
    /\ frags = <<>>
    /\ lines = 0
    /\ last = [op |-> "new"]

InitSky ==
    /\ NewSeededRenderer
    /\ traces = [i \in 1..Len(Scenes) |-> RenderTrace(Scenes[i])]
    /\ mesh = NoMesh
    /\ app = MainStart

NextSky ==
    \/ BeginFrame
    \/ SetPalette
    \/ DrawEclipticBand
    \/ ProjectPointStep

SpecSky == InitSky /\ [][NextSky]_vars

\* -------------------------------------------------------------- far lines
\* a coordinate three quarters of the way to i32::MAX
FAR == (I32_MAX \div 4) * 3

\* endpoints as unclipped as project_point returns them: some tens of pixels
\* outside the buffer, and far enough for twice their distance to pass i32::MAX
FarPoints ==
    { Vec2(R(0), R(0)), Vec2(R(-FarReach), R(-7)), Vec2(R(FarReach + 5), R(2)),
      Vec2(Q(5, 2), R(FarReach)), Vec2(R(FAR), R(0)), Vec2(R(-FAR), R(1)) }

\* Renderer::draw_line between two such points, in either build; a loop that is
\* still running after LineFuel iterations leaves the renderer "running"; the
\* first call of a frame
DrawFarLine ==
    /\ status = "ok"
    /\ ops = 0
    /\ \E start \in FarPoints, end \in FarPoints, overflow_checks \in BOOLEAN :
        LET done == DrawLineBuilt(color, start, end, ORBIT_COLOR, overflow_checks)
        IN  /\ color' = done.buffer
            /\ status' = IF done.panic THEN "panic"
                         ELSE IF ~done.done THEN "running" ELSE "ok"
            /\ last' = [Called("draw_line",
                               [start |-> start, end |-> end, color |-> ORBIT_COLOR],
                               Range(done.path))
                        EXCEPT !.path = done.path,
                               !.result = [steps |-> done.steps,
                                           overflowed |-> done.overflowed,
                                           overflow_checks |-> overflow_checks]]
    /\ ops' = ops + 1
    /\ lines' = lines + 1
    /\ UNCHANGED <<width, height, depth, sky, palette, frags, traces, mesh, app>>

NextFar ==
    \/ BeginFrame
    \/ DrawFarLine

SpecFar == Init /\ [][NextFar]_vars

\* ------------------------------------------------------------ main: a frame
\* TAU = 6.2831855, to two decimals
TAU == Q(157, 25)

\* the angle (in radians) as a fraction of a turn in [0, 1), to 1/96 of a turn
Turns(angle) ==
    The({ IF r = R(1) THEN R(0) ELSE r :
          r \in { RDiv(RFloor(RAdd(RMul(RSub(t, RFloor(t)), R(96)), Q(1, 2))), R(96)) :
                  t \in {RDiv(angle, TAU)} } })

VRounded(v) == The({ Vec3(Rounded(w.x), Rounded(w.y), Rounded(w.z)) : w \in {v} })
\* Vec3::normalized, of coordinates and to coordinates that are multiples of 1/16
Direction(v) == VRounded(The({ Normalized(w) : w \in {VRounded(v)} }))

RotationX(angle) ==
    The({ <<Row(1, 0, 0, 0), <<R(0), c, RNeg(s), R(0)>>, <<R(0), s, c, R(0)>>,
            Row(0, 0, 0, 1)>> :
          c \in {Cos(Turns(angle))}, s \in {Sin(Turns(angle))} })

RotationY(angle) ==
    The({ <<<<c, R(0), s, R(0)>>, Row(0, 1, 0, 0), <<RNeg(s), R(0), c, R(0)>>,
            Row(0, 0, 0, 1)>> :
          c \in {Cos(Turns(angle))}, s \in {Sin(Turns(angle))} })

FromBasis(right, up, forward, position) ==
    <<<<right.x, right.y, right.z, position.x>>,
      <<up.x, up.y, up.z, position.y>>,
      <<forward.x, forward.y, forward.z, position.z>>,
      Row(0, 0, 0, 1)>>

\* x += speed * dt; if x > TAU { x -= TAU }
Advance(x, speed, dt) ==
    The({ IF RGt(sum, TAU) THEN RSub(sum, TAU) ELSE sum :
          sum \in {RAdd(x, RMul(speed, dt))} })

\* update_planets, the last statements of its loop body: the transforms of
\* the planet and of its ring from translation * rotation * tilt
Turn(planet, turned) ==
    [planet EXCEPT
        !.transform = MatMul(turned, Scale(Vec3(planet.radius, planet.radius,
                                                planet.radius))),
        !.ring = IF planet.ring.ok
                 THEN Some([planet.ring.value EXCEPT !.transform = turned])
                 ELSE None]

\* update_planets, for one planet
UpdatePlanet(planet, dt) ==
    The({ Turn([planet EXCEPT !.orbit_angle = orbit_angle,
                              !.rotation = rotation,
                              !.position = pos],
               MatMul(MatMul(Translation(pos), RotationY(rotation)),
                      RotationX(planet.axial_tilt))) :
          orbit_angle \in {Advance(planet.orbit_angle, planet.orbit_speed, dt)},
          rotation \in {Advance(planet.rotation, planet.rotation_speed, dt)},
          pos \in { Vec3(NMul(Cos(turn), planet.orbit_radius), R(0),
                         NMul(Sin(turn), planet.orbit_radius)) :
                    turn \in {Turns(Advance(planet.orbit_angle, planet.orbit_speed, dt))} } })

UpdatePlanets(planets, dt) ==
    Collected([i \in 1..Len(planets) |-> UpdatePlanet(planets[i], dt)], Len(planets))

UpdateSun(sun, dt) ==
    The({ [sun EXCEPT
              !.rotation = rotation,
              !.transform = MatMul(RotationY(rotation),
                                   Scale(Vec3(sun.radius, sun.radius, sun.radius)))] :
          rotation \in {RAdd(sun.rotation, RMul(dt, Q(1, 10)))} })

\* a switch that leaves the ship in the colour of the theme before
SwitchThemeKeepShip(a) ==
    The({ [a EXCEPT
              !.theme_index = theme_index,
              !.active_theme = THEMES[theme_index + 1],
              !.planets = BuildPlanets(THEMES[theme_index + 1].planets),
              !.sun = BuildSun(THEMES[theme_index + 1]),
              !.light = [a.light EXCEPT
                            !.color = THEMES[theme_index + 1].light_color,
                            !.intensity = THEMES[theme_index + 1].light_intensity]] :
          theme_index \in {(a.theme_index + 1) % Len(THEMES)} })

\* main, the body of `if window.is_key_pressed(Key::T, ..)` up to set_palette
SwitchTheme(a) ==
    The({ [a EXCEPT
              !.theme_index = theme_index,
              !.active_theme = active_theme,
              !.planets = BuildPlanets(active_theme.planets),
              !.sun = BuildSun(active_theme),
              !.light = [a.light EXCEPT !.color = active_theme.light_color,
                                        !.intensity = active_theme.light_intensity],
              !.ship_color = active_theme.ship_color] :
          theme_index \in {(a.theme_index + 1) % Len(THEMES)},
          active_theme \in {THEMES[((a.theme_index + 1) % Len(THEMES)) + 1]} })

CollectWarpTargets(sun, planets) ==
    <<VAdd(sun.position, Vec3(R(0), RMul(sun.radius, Q(2, 5)), RAdd(sun.radius, R(8))))>>
    \o Collected([i \in 1..Len(planets) |->
                      VAdd(planets[i].position,
                           Vec3(R(0), RMul(planets[i].radius, Q(1, 2)),
                                RAdd(planets[i].radius, R(6))))],
                 Len(planets))

WARP_KEYS == <<"Key1", "Key2", "Key3", "Key4", "Key5">>

\* detect_warp_request after its first n keys: the target of the last of them
\* that is pressed and has one
RECURSIVE Selected(_, _, _)
Selected(keys, targets, n) ==
    IF n = 0 THEN None
    ELSE IF WARP_KEYS[n] \in keys /\ n <= Len(targets) THEN Some(targets[n])
    ELSE Selected(keys, targets, n - 1)

DetectWarpRequest(keys, targets) == Selected(keys, targets, Len(WARP_KEYS))

\* smoothstep, to 1/256
Smoothstep(t) ==
    RDiv(RFloor(RAdd(RMul(RMul(RMul(t, t), RSub(R(3), RMul(R(2), t))), R(256)), Q(1, 2))),
         R(256))

\* Vec3::lerp
Vec3Lerp(a, b, t) == VRounded(VAdd(a, VScale(VSub(b, a), t)))

\* Camera::forward
Forward(camera) ==
    The({ Direction(Vec3(NMul(Sin(yaw), cos_pitch), Sin(pitch), NMul(Cos(yaw), cos_pitch))) :
          yaw \in {Turns(camera.yaw)}, pitch \in {Turns(camera.pitch)},
          cos_pitch \in {Cos(Turns(camera.pitch))} })

CAMERA_SPEED == 28
WARP_DURATION == Q(9, 10)

\* v if the key is down, otherwise the zero vector
Held(keys, key, v) == IF key \in keys THEN v ELSE ZERO
\* r if the key is down, otherwise 0.0
Turned(keys, key, r) == IF key \in keys THEN r ELSE R(0)

\* handle_input, its movement from the keys that are down
Movement(keys, forward, right) ==
    VAdd(VAdd(VAdd(Held(keys, "W", forward), VNeg(Held(keys, "S", forward))),
              VAdd(Held(keys, "D", right), VNeg(Held(keys, "A", right)))),
         VAdd(Held(keys, "Space", UP), VNeg(Held(keys, "LeftShift", UP))))

\* handle_input, with the keys that are down
HandleInput(camera, keys, dt) ==
    The({ [camera EXCEPT
              !.position =
                  IF RGt(LengthSquared(movement), R(0))
                  THEN VRounded(VAdd(camera.position,
                                     VScale(Direction(movement),
                                            RMul(R(CAMERA_SPEED), dt))))
                  ELSE camera.position,
              !.yaw = RAdd(RSub(camera.yaw, Turned(keys, "Left", RMul(Q(9, 10), dt))),
                           Turned(keys, "Right", RMul(Q(9, 10), dt))),
              !.pitch = RClamp(RSub(RAdd(camera.pitch,
                                         Turned(keys, "Up", RMul(Q(3, 5), dt))),
                                    Turned(keys, "Down", RMul(Q(3, 5), dt))),
                               Q(-11, 10), Q(11, 10))] :
          movement \in { Movement(keys, forward, Direction(Cross(forward, UP))) :
                         forward \in {Forward(camera)} } })

\* apply_collisions, the body of its second loop
Pushed(position, center, radius) ==
    The({ IF RLt(dist, radius)
          THEN VRounded(VAdd(center,
                             VScale(IF RLt(dist, Q(1, 1000)) THEN V3(0, 1, 0)
                                    ELSE VDivS(VSub(position, center), dist),
                                    radius)))
          ELSE position :
          dist \in {Length(VSub(position, center))} })

\* apply_collisions, its second loop over the first n constraints
RECURSIVE Collide(_, _, _)
Collide(position, constraints, n) ==
    IF n = 0 THEN position
    ELSE The({ \* dist < radius is false when dist is NaN
               IF NAN \in {pushed.x, pushed.y, pushed.z} THEN pushed
               ELSE Pushed(pushed, constraints[n][1], constraints[n][2]) :
               pushed \in {Collide(position, constraints, n - 1)} })

ApplyCollisions(position, sun, planets) ==
    Collide(position,
            <<<<sun.position, RAdd(sun.radius, R(6))>>>>
            \o Collected([i \in 1..Len(planets) |->
                              <<planets[i].position, RAdd(planets[i].radius, R(3))>>],
                         Len(planets)),
            Len(planets) + 1)

SpaceshipTransformForCamera(camera) ==
    The({ MatMul(FromBasis(right, Direction(Cross(right, forward)), forward,
                           VAdd(camera.position,
                                VAdd(VScale(forward, R(14)), Vec3(R(0), Q(-5, 2), R(0))))),
                 Scale(Vec3(Q(4, 5), Q(4, 5), Q(4, 5)))) :
          forward \in {Forward(camera)},
          right \in {Direction(Cross(Forward(camera), UP))} })

SPHERE_MESH == [fn |-> "uv_sphere", args |-> [segments |-> 28, rings |-> 18]]
SPACESHIP_MESH == [fn |-> "from_obj", args |-> [path |-> "spaceship.obj"]]

\* the instances of a planet: its sphere, then its ring if it has one
PlanetInstances(planet) ==
    <<RenderInstance(SPHERE_MESH, planet.transform, Material(planet.color, Q(1, 20)))>>
    \o (IF planet.ring.ok
        THEN <<RenderInstance(planet.ring.value.mesh, planet.ring.value.transform,
                              Material(planet.ring.value.color, Q(1, 10)))>>
        ELSE <<>>)

RECURSIVE PlanetsInstances(_, _)
PlanetsInstances(planets, idx) ==
    IF idx > Len(planets) THEN <<>>
    ELSE PlanetInstances(planets[idx]) \o PlanetsInstances(planets, idx + 1)

\* the instances main hands to render
Instances(a) ==
    <<RenderInstance(SPHERE_MESH, a.sun.transform, Material(a.sun.color, Q(17, 20)))>>
    \o PlanetsInstances(a.planets, 1)
    \o <<RenderInstance(SPACESHIP_MESH, SpaceshipTransformForCamera(a.camera),
                        Material(a.ship_color, Q(1, 5)))>>

\* main, lines 55..58: the seconds since the last frame, at most 0.1
Dt(elapsed) == IF RGt(elapsed, Q(1, 10)) THEN Q(1, 10) ELSE elapsed

\* main, lines 55..75 of the loop body after elapsed seconds with these keys:
\* dt, update_planets, update_sun and the T key; frame is what the iteration
\* read and did, with the theme, warp and camera it began with
Updated(a, elapsed, keys) ==
    The({ [themed EXCEPT
              !.frame = [op |-> "frame", dt |-> dt, keys |-> keys,
                         theme_index |-> a.theme_index, warp |-> a.warp,
                         camera |-> a.camera,
                         handle_input |-> FALSE, moved |-> None, requested |-> None],
              !.frames = a.frames + 1] :
          dt \in {Dt(elapsed)},
          themed \in { IF "T" \in keys THEN SwitchTheme(updated) ELSE updated :
                       updated \in {[a EXCEPT
                                        !.planets = UpdatePlanets(a.planets, Dt(elapsed)),
                                        !.sun = UpdateSun(a.sun, Dt(elapsed))]} } })

\* main, lines 83..98 of the loop body: the warp, with the camera that line
\* 79..81 left
WarpBlock(a, keys, dt, camera) ==
    LET progress == IF a.warp.ok THEN RAdd(a.warp.value.progress, dt) ELSE R(0)
        t == IF a.warp.ok THEN RMin(RDiv(progress, a.warp.value.duration), R(1)) ELSE R(0)
        moved == IF a.warp.ok
                 THEN Some(Vec3Lerp(a.warp.value.start, a.warp.value.target, Smoothstep(t)))
                 ELSE None
        requested == IF a.warp.ok THEN None
                     ELSE DetectWarpRequest(keys, CollectWarpTargets(a.sun, a.planets))
    IN  [a EXCEPT
            !.camera = IF moved.ok THEN [camera EXCEPT !.position = moved.value] ELSE camera,
            !.warp = IF a.warp.ok
                     THEN IF RGe(t, R(1)) THEN None
                          ELSE Some([a.warp.value EXCEPT !.progress = progress])
                     ELSE IF requested.ok
                     THEN Some([start |-> camera.position, target |-> requested.value,
                                progress |-> R(0), duration |-> WARP_DURATION])
                     ELSE None,
            !.frame = [a.frame EXCEPT !.handle_input = ~a.warp.ok,
                                      !.moved = moved,
                                      !.requested = requested]]

\* a loop body that calls handle_input in every frame
WarpStepSteered(a, keys, dt) ==
    The({ WarpBlock(a, keys, dt, camera) : camera \in {HandleInput(a.camera, keys, dt)} })

\* main, lines 77..98 of the loop body: handle_input and the warp
WarpStep(a, keys, dt) ==
    The({ WarpBlock(a, keys, dt, camera) :
          camera \in {IF ~a.warp.ok THEN HandleInput(a.camera, keys, dt) ELSE a.camera} })

\* main, line 100 of the loop body
Collided(a) ==
    [a EXCEPT !.camera.position = ApplyCollisions(a.camera.position, a.sun, a.planets)]

\* main, lines 55..100 of the loop body: up to apply_collisions
Iteration(a, elapsed, keys) ==
    The({ Collided(warped) :
          warped \in { WarpStep(updated, keys, updated.frame.dt) :
                       updated \in {Updated(a, elapsed, keys)} } })

\* main, one iteration of its loop after elapsed seconds with these keys.
\* The draw calls are recorded in `last` with what main hands them
Frame(elapsed, keys) ==
    /\ status = "ok"
    /\ app' = Iteration(app, elapsed, keys)
    /\ palette' = IF "T" \in keys THEN app'.active_theme.palette ELSE palette
    /\ LET painted == SkyPaint(sky, color, palette')
           band == DrawEclipticBandOn(painted.buffer)
       IN  /\ color' = band.buffer
           /\ status' = IF painted.panic \/ band.panic THEN "panic" ELSE "ok"
    /\ depth' = Fill(Len(depth), INFINITY)
    /\ last' = [op |-> "frame",
                begin_frame |-> palette',
                draw_orbits |-> Collected([i \in 1..Len(app'.planets) |->
                                              app'.planets[i].orbit_color],
                                          Len(app'.planets)),
                render |-> [instances |-> Instances(app'), camera |-> app'.camera,
                            light |-> app'.light]]
    /\ ops' = 0
    /\ frags' = <<>>
    /\ lines' = 0
    /\ UNCHANGED <<width, height, sky, traces, mesh>>

\* main with a window of no pixels
InitMain == Init /\ width = 0 /\ height = 0

\* ------------------------------------------------------------ theme frames
\* the seconds between two frames: none, and half a second
ElapsedMenu == {R(0), Q(1, 2)}

\* the keys of a frame
KeyMenu == { {}, {"T"}, {"Key2"}, {"W", "Left", "Key1", "Key4"}, {"T", "Key5"} }

\* the first MaxFrames frames of main
ThemeFrame ==
    /\ app.frames < MaxFrames
    /\ \E elapsed \in ElapsedMenu, keys \in KeyMenu : Frame(elapsed, keys)

NextMain == ThemeFrame

SpecMain == InitMain /\ [][NextMain]_vars

\* ------------------------------------------------------------- warp frames
\* the seconds between two frames, dt > 0: 80 ms, and half a second
WarpElapsedMenu == {Q(2, 25), Q(1, 2)}

\* the keys of a frame: none, or two warp keys while moving
WarpKeyMenu == { {}, {"W", "Left", "Key1", "Key4"} }

\* the first MaxStart frames of main, and every frame of a warp in progress
WarpFrame ==
    /\ app.warp.ok \/ app.frames < MaxStart
    /\ \E elapsed \in WarpElapsedMenu, keys \in WarpKeyMenu : Frame(elapsed, keys)

NextWarp == WarpFrame

\* whether WarpFrame is enabled: Frame has a next state for every elapsed
\* time and every set of keys
WarpFrameEnabled == status = "ok" /\ (app.warp.ok \/ app.frames < MaxStart)

\* the loop of main goes on while the window is open: weak fairness of
\* WarpFrame, WF_vars(WarpFrame), written with WarpFrameEnabled for
\* ENABLED <<WarpFrame>>_vars and with the count of frames for the step
WarpFairness ==
    \/ []<>(~WarpFrameEnabled)
    \/ []<><<app'.frames = app.frames + 1>>_vars

SpecWarp == InitMain /\ [][NextWarp]_vars /\ WarpFairness

\* ================================================================== claims
\* the cell of pixel p = <<x, y>> in the buffers
Cell(p) == Idx(width, p[1], p[2]) + 1

\* the fragments of the frame at pixel p, in draw order
FragmentsAt(p) == SelectSeq(frags, LAMBDA f : f.x = p[1] /\ f.y = p[2])

\* the first fragment of a non-empty list among those of smallest depth
Nearest(fs) ==
    CHOOSE i \in 1..Len(fs) :
        /\ \A j \in 1..Len(fs) : RLe(fs[i].depth, fs[j].depth)
        /\ \A j \in 1..(i - 1) : RLt(fs[i].depth, fs[j].depth)

\* C1: within a frame, at every pixel that rasterize_triangle generated
\* fragments for, the depth cell holds the smallest depth of those fragments
\* and (when no line or band was drawn over the frame) the colour cell holds the
\* colour of the first fragment of that smallest depth, whatever the draw order.
C1_NearestFragmentWins ==
    \A p \in Pixels(width, height) :
        LET fs == FragmentsAt(p)
        IN  fs # <<>> =>
                /\ depth[Cell(p)] = fs[Nearest(fs)].depth
                /\ lines = 0 => color[Cell(p)] = fs[Nearest(fs)].color

\* a pixel where a later fragment was nearer than an earlier one and a still
\* later one of another colour tied with it: the nearer, earlier colour shows
C1_Witness ==
    /\ lines = 0
    /\ \E p \in Pixels(width, height) :
        LET fs == FragmentsAt(p)
        IN  \E i, j, k \in 1..Len(fs) :
                /\ i < j /\ j < k
                /\ RLt(fs[j].depth, fs[i].depth)
                /\ fs[k].depth = fs[j].depth
                /\ fs[k].color # fs[j].color
                /\ Nearest(fs) = j
                /\ color[Cell(p)] = fs[j].color

\* C2: after begin_frame every depth cell is +infinity and every colour cell
\* holds the gradient colour of its row (lerp of sky_top and sky_bottom by
\* row / height) or the colour of a star seeded at that pixel.
C2_FrameCleared ==
    last.op = "begin_frame" =>
        \A p \in Pixels(width, height) :
            /\ depth[Cell(p)] = INFINITY
            /\ \/ color[Cell(p)]
                    = ToU32(ColorLerp(palette.sky_top, palette.sky_bottom, Q(p[2], height)))
               \/ \E k \in 1..Len(sky.stars) :
                    /\ sky.stars[k].x = p[1]
                    /\ sky.stars[k].y = p[2]
                    /\ color[Cell(p)]
                         = ToU32(ColorScale(palette.star_color, sky.stars[k].intensity))

\* begin_frame over buffers that differed from the cleared frame, in a renderer
\* with a star pixel and rows of different gradient colours
C2_Witness ==
    /\ last.op = "begin_frame"
    /\ last.args.dirty
    /\ \E p, q \in Pixels(width, height) :
        /\ color[Cell(p)] # color[Cell(q)]
        /\ color[Cell(p)]
             = ToU32(ColorLerp(palette.sky_top, palette.sky_bottom, Q(p[2], height)))
        /\ \E k \in 1..Len(sky.stars) :
            /\ <<sky.stars[k].x, sky.stars[k].y>> = q
            /\ color[Cell(q)]
                 = ToU32(ColorScale(palette.star_color, sky.stars[k].intensity))

\* the dot product of draw_mesh's face normal and view direction for triangle k
\* of instance i of a scene, before normalization (which keeps its sign)
FaceDot(sc, i, k) ==
    LET instance == sc.instances[i]
        indices == instance.mesh.indices[k]
        p0 == WorldPosition(instance, indices[1] + 1)
        p1 == WorldPosition(instance, indices[2] + 1)
        p2 == WorldPosition(instance, indices[3] + 1)
    IN  Dot(Cross(VSub(p1, p0), VSub(p2, p0)), VSub(sc.camera.position, p0))

\* the triangles <<instance, triangle>> of a scene
Triangles(sc) ==
    UNION { { <<i, k>> : k \in 1..Len(sc.instances[i].mesh.indices) } :
              i \in 1..Len(sc.instances) }

\* those that face away from the camera
BackFaces(sc) == { t \in Triangles(sc) : RLe(FaceDot(sc, t[1], t[2]), R(0)) }

\* scene by scene
BackFacesIn == [i \in 1..Len(Scenes) |-> BackFaces(Scenes[i])]

\* C4: a triangle whose world-space face normal has a dot product <= 0 with the
\* view direction at its first vertex generates no fragment, and every colour
\* or depth cell a render call changed has a fragment of another triangle.
C4_BackFacesCulled ==
    last.op = "render" =>
        LET back == BackFacesIn[last.args]
        IN  /\ \A n \in 1..Len(last.frags) :
                <<last.frags[n].inst, last.frags[n].tri>> \notin back
            /\ \A p \in Pixels(width, height) :
                color[Cell(p)] # last.prevColor[Cell(p)]
                    \/ depth[Cell(p)] # last.prevDepth[Cell(p)]
                => \E n \in 1..Len(last.frags) :
                    /\ <<last.frags[n].x, last.frags[n].y>> = p
                    /\ <<last.frags[n].inst, last.frags[n].tri>> \notin back

\* a render call that drew some triangle and met back faces, one of them with a
\* dot product of exactly 0 and one with all three vertices on screen
C4_Witness ==
    /\ last.op = "render"
    /\ last.frags # <<>>
    /\ \E t \in BackFacesIn[last.args] :
        /\ FaceDot(Scenes[last.args], t[1], t[2]) = R(0)
        /\ traces[last.args][t[1]].triangles[t[2]].outcome = "culled"

\* C6: every pixel whose cell draw_line, draw_ecliptic_band, Sky::paint or
\* rasterize_triangle reads or writes lies inside the buffer, 0 <= x < width and
\* 0 <= y < height, and no buffer index is out of range.
C6_AccessesInRange ==
    /\ status = "ok"
    /\ last.op \in {"begin_frame", "draw_line", "draw_ecliptic_band", "render"}
        => last.accessed \subseteq Pixels(width, height)

\* a render call with a vertex left of the buffer, in a frame that drew a line
\* or band, in a renderer with a star at x = width
C6_Witness ==
    /\ last.op = "render"
    /\ last.accessed # {}
    /\ lines > 0
    /\ \E k \in 1..Len(sky.stars) : sky.stars[k].x = width
    /\ \E i \in 1..Len(traces[last.args]) :
        \E v \in 1..Len(traces[last.args][i].transformed) :
            /\ ~traces[last.args][i].transformed[v].absent
            /\ RLt(traces[last.args][i].transformed[v].screen.x, R(0))

\* the pixel events <<instance, triangle, event>> of a scene's trace that are
\* fragments: covered pixels with w_sum > 0 of rasterized triangles
FragmentEvents(trace) ==
    { e \in UNION { UNION { { <<i, k, n>> : n \in 1..Len(trace[i].triangles[k].pixels) } :
                              k \in 1..Len(trace[i].triangles) } :
                      i \in 1..Len(trace) } :
        trace[e[1]].triangles[e[2]].pixels[e[3]].kind = "frag" }

FragmentOf(trace, e) ==
    LET ev == trace[e[1]].triangles[e[2]].pixels[e[3]]
    IN  [inst |-> e[1], tri |-> e[2], x |-> ev.x, y |-> ev.y,
         depth |-> ev.depth, color |-> ev.color]

\* a world position that the projection rejects: |clip.w| < 0.001 or an NDC
\* depth outside [-1, 1]
RejectedPoint(p, vp) ==
    LET clip == MatVec(vp, Vec4(p.x, p.y, p.z, R(1)))
    IN  \/ RLt(RAbs(clip.w), Q(1, 1000))
        \/ RGt(RDiv(clip.z, clip.w), R(1))
        \/ RLt(RDiv(clip.z, clip.w), R(-1))

\* the triangles of a scene with a rejected vertex
Rejected(sc) ==
    { t \in Triangles(sc) :
        \E c \in 1..3 :
            RejectedPoint(WorldPosition(sc.instances[t[1]],
                                        sc.instances[t[1]].mesh.indices[t[2]][c] + 1),
                          sc.vp) }

\* scene by scene
RejectedIn == [i \in 1..Len(Scenes) |-> Rejected(Scenes[i])]

\* C9: render returns normally having drawn every instance in list order; every
\* covered pixel with w_sum > 0 of every triangle that is not skipped reaches
\* the depth test, in instance order; a triangle with a rejected vertex or
\* near-zero area and a pixel with w_sum <= 0 reach no depth test, and a cell
\* without a depth-tested fragment keeps its colour and depth.
C9_RenderCompletes ==
    last.op = "render" =>
        LET trace == traces[last.args]
            fs == last.frags
            events == FragmentEvents(trace)
            rejected == RejectedIn[last.args]
        IN  /\ status = "ok"
            /\ last.drawn = [i \in 1..Len(Scenes[last.args].instances) |-> i]
            /\ Range(fs) = { FragmentOf(trace, e) : e \in events }
            /\ Len(fs) = Cardinality(events)
            /\ \A n \in 1..(Len(fs) - 1) : fs[n].inst <= fs[n + 1].inst
            /\ \A n \in 1..Len(fs) : <<fs[n].inst, fs[n].tri>> \notin rejected
            /\ \A p \in Pixels(width, height) :
                (\A n \in 1..Len(fs) : <<fs[n].x, fs[n].y>> # p)
                => /\ color[Cell(p)] = last.prevColor[Cell(p)]
                   /\ depth[Cell(p)] = last.prevDepth[Cell(p)]

\* a render call that skipped a triangle with a rejected vertex and went on to
\* draw a later triangle of the same mesh and a later instance
C9_Witness ==
    /\ last.op = "render"
    /\ \E t \in RejectedIn[last.args] :
        /\ \E n \in 1..Len(last.frags) :
            last.frags[n].inst = t[1] /\ last.frags[n].tri > t[2]
        /\ \E n \in 1..Len(last.frags) : last.frags[n].inst > t[1]
    /\ color # last.prevColor

\* the pixels whose colour the last call changed
Written == { p \in Pixels(width, height) : color[Cell(p)] # last.prevColor[Cell(p)] }

\* a point inside the buffer
Inside(v) ==
    /\ RGe(v.x, R(0)) /\ RLt(v.x, R(width))
    /\ RGe(v.y, R(0)) /\ RLt(v.y, R(height))

Between(a, b) == IF a <= b THEN a..b ELSE b..a

\* C5: for endpoints inside the buffer, the pixels draw_line changes all take
\* the line's colour and are the Bresenham path from the first endpoint's
\* pixel to the second's: both end pixels, max(|dx|, |dy|) + 1 pixels in all,
\* one per step along the longer axis, each within half a pixel of the ideal
\* line, and for a horizontal line the pixels (x0..x1, y); the depth buffer is
\* unchanged.
C5_BresenhamPath ==
    last.op = "draw_line" /\ Inside(last.args.start) /\ Inside(last.args.end) =>
        LET x0 == AsI32(last.args.start.x)
            y0 == AsI32(last.args.start.y)
            x1 == AsI32(last.args.end.x)
            y1 == AsI32(last.args.end.y)
            n == IF Abs(x1 - x0) >= Abs(y1 - y0) THEN Abs(x1 - x0) ELSE Abs(y1 - y0)
        IN  /\ depth = last.prevDepth
            /\ \A p \in Written : color[Cell(p)] = ToU32(last.args.color)
            /\ <<x0, y0>> \in Written
            /\ <<x1, y1>> \in Written
            /\ Cardinality(Written) = n + 1
            /\ y0 = y1 => Written = Between(x0, x1) \X {y0}
            /\ \A p \in Written :
                2 * Abs((x1 - x0) * (p[2] - y0) - (y1 - y0) * (p[1] - x0)) <= n
            /\ IF Abs(x1 - x0) >= Abs(y1 - y0)
               THEN \A x \in Between(x0, x1) :
                        Cardinality({ p \in Written : p[1] = x }) = 1
               ELSE \A y \in Between(y0, y1) :
                        Cardinality({ p \in Written : p[2] = y }) = 1

\* a line between pixels of different rows and columns that is neither
\* diagonal nor axis-parallel, from a point half-way between pixels, drawn
\* right to left over a painted frame
C5_Witness ==
    /\ last.op = "draw_line"
    /\ Inside(last.args.start)
    /\ Inside(last.args.end)
    /\ last.args.start.x = RAdd(R(AsI32(last.args.start.x)), Q(1, 2))
    /\ AsI32(last.args.end.x) + 2 <= AsI32(last.args.start.x)
    /\ AsI32(last.args.end.y) = AsI32(last.args.start.y) + 1
    /\ \E p \in Pixels(width, height) : last.prevColor[Cell(p)] # 0
    /\ Cardinality(Written) = AsI32(last.args.start.x) - AsI32(last.args.end.x) + 1

\* C7: project_point is absent exactly when |clip.w| < 0.001 or the NDC depth
\* is outside [-1, 1]; otherwise its x and y are the NDC x and y mapped from
\* [-1, 1] to [0, width - 1] and, flipped, to [0, height - 1]; and for every
\* mesh vertex with that world position under that matrix the vertex stage of
\* draw_mesh rejects it in the same cases and gives the same screen x and y.
C7_ProjectionAgrees ==
    last.op = "project_point" =>
        LET p == last.args.position
            clip == MatVec(last.args.vp, Vec4(p.x, p.y, p.z, R(1)))
            rejected ==
                \/ RLt(RAbs(clip.w), Q(1, 1000))
                \/ RGt(RDiv(clip.z, clip.w), R(1))
                \/ RLt(RDiv(clip.z, clip.w), R(-1))
        IN  /\ last.result.absent = rejected
            /\ ~rejected =>
                /\ last.result.x
                     = RMul(RDiv(RAdd(RDiv(clip.x, clip.w), R(1)), R(2)), R(width - 1))
                /\ last.result.y
                     = RMul(RDiv(RSub(R(1), RDiv(clip.y, clip.w)), R(2)), R(height - 1))
            /\ \A i \in 1..Len(Scenes) :
                \A j \in 1..Len(Scenes[i].instances) :
                    \A k \in 1..Len(Scenes[i].instances[j].mesh.vertices) :
                        /\ Scenes[i].vp = last.args.vp
                        /\ WorldPosition(Scenes[i].instances[j], k) = p
                        => LET v == traces[i][j].transformed[k]
                           IN  /\ v.absent = last.result.absent
                               /\ ~v.absent =>
                                    /\ v.screen.x = last.result.x
                                    /\ v.screen.y = last.result.y

\* a projected vertex that lands off the buffer's centre line and above it, of a
\* mesh that also has a rejected vertex
C7_Witness ==
    /\ last.op = "project_point"
    /\ width > 1
    /\ height > 1
    /\ ~last.result.absent
    /\ RGt(last.result.x, R(0))
    /\ RLt(RMul(last.result.y, R(2)), R(height - 1))
    /\ \E i \in 1..Len(Scenes) :
        \E j \in 1..Len(Scenes[i].instances) :
            \E k, r \in 1..Len(Scenes[i].instances[j].mesh.vertices) :
                /\ Scenes[i].vp = last.args.vp
                /\ WorldPosition(Scenes[i].instances[j], k) = last.args.position
                /\ traces[i][j].transformed[k].screen.y = last.result.y
                /\ traces[i][j].transformed[r].absent

\* the mesh invariant
MeshInvariant(m) ==
    /\ Len(m.normals) = Len(m.vertices)
    /\ \A k \in 1..Len(m.indices) :
        \A n \in 1..3 : m.indices[k][n] >= 0 /\ m.indices[k][n] < Len(m.vertices)

\* C3: a mesh that uv_sphere, ring or from_obj returns has as many normals as
\* vertices, and every index of every triangle is smaller than the vertex count.
C3_MeshInvariant ==
    mesh.fn \in {"uv_sphere", "ring", "from_obj"} /\ mesh.result = "ok"
        => MeshInvariant(mesh.mesh)

\* a mesh with triangles loaded from a source with a face line that names index 0
C3_Witness ==
    /\ mesh.fn = "from_obj"
    /\ mesh.result = "ok"
    /\ mesh.mesh.indices # <<>>
    /\ \E k \in 1..Len(mesh.args.source.lines) :
        /\ mesh.args.source.lines[k].head = "f"
        /\ \E n \in 1..Len(mesh.args.source.lines[k].rest) :
            mesh.args.source.lines[k].rest[n][1] = "0"

\* a source with a word that is no number where from_obj reads one: a word that
\* is no f32 among the first three of a vertex line, or a word of a face line
\* whose first part is no usize
Malformed(source) ==
    \E k \in 1..Len(source.lines) :
        LET line == source.lines[k]
        IN  \/ /\ line.head = "v"
               /\ \E n \in 1..Len(line.rest) : n <= 3 /\ ~ParseF32(line.rest[n]).ok
            \/ /\ line.head = "f"
               /\ \E n \in 1..Len(line.rest) : ~ParseUsize(line.rest[n][1]).ok

\* C8: from_obj returns no mesh when the source cannot be opened or read or a
\* vertex line or face line of it has a word that does not parse as a number.
C8_MalformedSourceFails ==
    /\ mesh.fn = "from_obj"
    /\ \/ ~mesh.args.source.opens
       \/ IoError \in Range(mesh.args.source.lines)
       \/ Malformed(mesh.args.source)
    => mesh.result # "ok"

\* C10: for segments >= 1 and rings >= 1, uv_sphere(segments, rings) has
\* (segments + 1) * (rings + 1) vertices and 2 * segments * rings triangles.
C10_SphereCounts ==
    mesh.fn = "uv_sphere" /\ mesh.args.segments >= 1 /\ mesh.args.rings >= 1 =>
        /\ Len(mesh.mesh.vertices) = (mesh.args.segments + 1) * (mesh.args.rings + 1)
        /\ Len(mesh.mesh.indices) = 2 * mesh.args.segments * mesh.args.rings

\* a sphere with more segments than rings and more than one of each
C10_Witness ==
    /\ mesh.fn = "uv_sphere"
    /\ mesh.args.rings >= 2
    /\ mesh.args.segments > mesh.args.rings
    /\ Len(mesh.mesh.vertices) = (mesh.args.segments + 1) * (mesh.args.rings + 1)
    /\ Len(mesh.mesh.indices) = 2 * mesh.args.segments * mesh.args.rings

\* C11: the star field is the one Sky::new generates from the generator seeded
\* with 42 for the renderer's width, height and count, at every moment; and the
\* colour buffer a begin_frame leaves is the painting of that sky under the
\* current palette on an empty buffer, whatever the buffer held before.
C11_StarFieldStable ==
    /\ sky = SkySeeded(width, height, Len(sky.stars))
    /\ last.op = "begin_frame" =>
           color = SkyPaint(SkySeeded(width, height, Len(sky.stars)),
                            Fill(width * height, 0), palette).buffer

\* a begin_frame over a buffer something was drawn into, with the seeded stars
\* of which the first has the intensity of the third draw
C11_Witness ==
    /\ last.op = "begin_frame"
    /\ last.args.dirty
    /\ Len(sky.stars) = MaxStars
    /\ sky.stars[1].intensity = Q(13088109, 16777216)
    /\ \E k \in 1..Len(sky.stars) :
        /\ StarVisible(sky, sky.stars[k])
        /\ color[Idx(width, sky.stars[k].x, sky.stars[k].y) + 1] = StarColor(palette, sky.stars[k])
    /\ palette # THEMES[1].palette

\* C12: every non-degenerate triangle of uv_sphere has an outward winding: the
\* normal draw_mesh culls by, cross(v1 - v0, v2 - v0), has a positive dot
\* product with each of the triangle's vertex positions (stated for the
\* spheres of three segments or more, which enclose a volume).
C12_SphereWindingOutward ==
    mesh.fn = "uv_sphere" /\ mesh.args.segments >= 3 =>
        \A k \in 1..Len(mesh.mesh.indices) :
            LET t == mesh.mesh.indices[k]
                n == WindingNormal(mesh.mesh, t)
                dots == [c \in 1..3 |-> Dot(n, Position(mesh.mesh.vertices[t[c] + 1]))]
            IN  n # ZERO => \A c \in 1..3 : RGt(dots[c], R(0))

\* C13: the three vertices of every triangle of ring carry the same normal, and
\* the normal draw_mesh culls by, cross(v1 - v0, v2 - v0), points to the side of
\* that vertex normal when the triangle is not degenerate.
C13_RingWindingAgrees ==
    mesh.fn = "ring" =>
        \A k \in 1..Len(mesh.mesh.indices) :
            LET t == mesh.mesh.indices[k]
                n == WindingNormal(mesh.mesh, t)
                normal == mesh.mesh.normals[t[1] + 1]
            IN  /\ \A c \in 1..3 : mesh.mesh.normals[t[c] + 1] = normal
                /\ normal \in {UP, VNeg(UP)}
                /\ n # ZERO => RGt(Dot(n, normal), R(0))

\* C14: after a render, no fragment comes from a triangle with a rejected vertex,
\* and every cell whose colour or depth changed holds the depth of a fragment
\* at that pixel of a triangle whose three vertices were all accepted: a
\* triangle with a rejected vertex writes nothing, in part or in whole.
C14_RejectedTriangleSkipped ==
    last.op = "render" =>
        LET fs == last.frags
            rejected == RejectedIn[last.args]
        IN  /\ \A n \in 1..Len(fs) : <<fs[n].inst, fs[n].tri>> \notin rejected
            /\ \A p \in Pixels(width, height) :
                (color[Cell(p)] # last.prevColor[Cell(p)]
                    \/ depth[Cell(p)] # last.prevDepth[Cell(p)])
                => \E n \in 1..Len(fs) :
                       /\ <<fs[n].x, fs[n].y>> = p
                       /\ <<fs[n].inst, fs[n].tri>> \notin rejected
                       /\ fs[n].depth = depth[Cell(p)]

\* a render of a mesh with a triangle of one rejected and two accepted vertices,
\* and another triangle of the same mesh that wrote a cell
C14_Witness ==
    /\ last.op = "render"
    /\ color # last.prevColor
    /\ \E t \in RejectedIn[last.args] :
        LET sc == Scenes[last.args]
            at(c) == WorldPosition(sc.instances[t[1]],
                                   sc.instances[t[1]].mesh.indices[t[2]][c] + 1)
        IN  /\ Cardinality({ c \in 1..3 : RejectedPoint(at(c), sc.vp) }) = 1
            /\ \E n \in 1..Len(last.frags) : last.frags[n].inst = t[1]

\* the vertices handed to rasterize_triangle for triangle k of instance i of
\* the scene with the trace tr and the instances ins
Handed(tr, ins, i, k) ==
    [c \in 1..3 |-> tr[i].transformed[ins[i].mesh.indices[k][c] + 1]]

\* the edge-function values of the triangle a at the centre of pixel p
EdgesAt(a, p) ==
    LET c == Vec3(RAdd(R(p[1]), Q(1, 2)), RAdd(R(p[2]), Q(1, 2)), R(0))
    IN  <<Edge(a[2].screen, a[3].screen, c), Edge(a[3].screen, a[1].screen, c),
          Edge(a[1].screen, a[2].screen, c)>>

SameSign(e) ==
    \/ \A n \in 1..3 : RGt(e[n], R(0))
    \/ \A n \in 1..3 : RLt(e[n], R(0))

\* the buffer pixels inside the screen-space bounding box of the triangle a
BoxPixels(a) ==
    { p \in Pixels(width, height) :
        /\ RLe(RFloor(Min3(a[1].screen.x, a[2].screen.x, a[3].screen.x)), R(p[1]))
        /\ RLe(R(p[1]), RCeil(Max3(a[1].screen.x, a[2].screen.x, a[3].screen.x)))
        /\ RLe(RFloor(Min3(a[1].screen.y, a[2].screen.y, a[3].screen.y)), R(p[2]))
        /\ RLe(R(p[2]), RCeil(Max3(a[1].screen.y, a[2].screen.y, a[3].screen.y))) }

\* C15: rasterize_triangle on a triangle of |signed area| >= 1e-4 (with vertices
\* in front of the camera, inv_w > 0, so that w_sum > 0 wherever the weights are
\* positive) generates a fragment at a buffer pixel inside the triangle's
\* bounding box exactly when the three edge-function values at the pixel centre
\* are all strictly positive or all strictly negative, and the weights of a
\* fragment, the edge values divided by the signed area, are positive and sum
\* to 1.
C15_FragmentsAreCoveredPixels ==
    last.op = "render" =>
        \A i \in 1..Len(traces[last.args]) :
            \A k \in 1..Len(traces[last.args][i].triangles) :
                traces[last.args][i].triangles[k].outcome \in {"bbox", "area", "raster"} =>
                    LET a == Handed(traces[last.args], Scenes[last.args].instances, i, k)
                        area == Edge(a[1].screen, a[2].screen, a[3].screen)
                    IN  RGe(RAbs(area), AREA_EPS) /\ (\A c \in 1..3 : RGt(a[c].inv_w, R(0))) =>
                            \A p \in BoxPixels(a) :
                                LET e == EdgesAt(a, p)
                                IN  /\ (\E n \in 1..Len(last.frags) :
                                           /\ last.frags[n].inst = i
                                           /\ last.frags[n].tri = k
                                           /\ <<last.frags[n].x, last.frags[n].y>> = p)
                                       <=> SameSign(e)
                                    /\ SameSign(e) =>
                                        /\ \A n \in 1..3 : RGt(RDiv(e[n], area), R(0))
                                        /\ RAdd(RAdd(RDiv(e[1], area), RDiv(e[2], area)),
                                                RDiv(e[3], area)) = R(1)

\* the vertex references of a face line, 1-based: of every word the part before
\* the first '/', where it is a number
References(line) ==
    LET words == SelectSeq(line.rest, LAMBDA w : ParseUsize(w[1]).ok)
    IN  [k \in 1..Len(words) |-> ParseUsize(words[k][1]).value]

\* the triangles [i1 - 1, ik - 1, i(k+1) - 1], k = 2..n-1, of references i1..in
FanOf(refs) ==
    IF Len(refs) < 3 THEN <<>>
    ELSE [k \in 1..(Len(refs) - 2) |-> <<refs[1] - 1, refs[k + 1] - 1, refs[k + 2] - 1>>]

\* the triangles of the face lines among the first n lines, in file order
RECURSIVE FansOf(_, _)
FansOf(source_lines, n) ==
    IF n = 0 THEN <<>>
    ELSE FansOf(source_lines, n - 1)
             \o (IF source_lines[n].head = "f" THEN FanOf(References(source_lines[n])) ELSE <<>>)

\* C16: the triangles of a mesh that from_obj returns are, face line after face
\* line, the n - 2 triangles [i1 - 1, ik - 1, i(k+1) - 1], k = 2..n-1, of the
\* line's n >= 3 references, the first reference being the pivot of each, and
\* none for a line of fewer than 3 references.
C16_FanTriangulation ==
    mesh.fn = "from_obj" /\ mesh.result = "ok" =>
        mesh.mesh.indices = FansOf(mesh.args.source.lines, Len(mesh.args.source.lines))

\* a mesh from a source with a face of four references and one with references
\* that carry '/' parts
C16_Witness ==
    /\ mesh.fn = "from_obj"
    /\ mesh.result = "ok"
    /\ \E k \in 1..Len(mesh.args.source.lines) :
        /\ mesh.args.source.lines[k].head = "f"
        /\ Len(References(mesh.args.source.lines[k])) = 4
    /\ <<2, 1, 0>> \in Range(mesh.mesh.indices)
    /\ <<2, 0, 3>> \in Range(mesh.mesh.indices)

\* C18: a call other than begin_frame changes a depth cell only if it is a
\* render with a fragment at that pixel: the cell then holds that fragment's
\* depth, strictly less than before, and the colour cell holds that fragment's
\* colour; draw_line, draw_ecliptic_band, project_point (and set_palette) leave
\* the depth buffer as it was; and a cell that is not +infinity has had a
\* fragment in the frame.
C18_DepthOnlyDecreases ==
    /\ last.op \notin {"new", "begin_frame"} =>
        /\ last.op # "render" => depth = last.prevDepth
        /\ \A p \in Pixels(width, height) :
            depth[Cell(p)] # last.prevDepth[Cell(p)] =>
                /\ last.op = "render"
                /\ RLt(depth[Cell(p)], last.prevDepth[Cell(p)])
                /\ \E n \in 1..Len(last.frags) :
                    /\ <<last.frags[n].x, last.frags[n].y>> = p
                    /\ last.frags[n].depth = depth[Cell(p)]
                    /\ last.frags[n].color = color[Cell(p)]
    /\ \A p \in Pixels(width, height) :
        depth[Cell(p)] # INFINITY => FragmentsAt(p) # <<>>

\* a render that lowered a cell an earlier render of the frame had written,
\* while another cell stayed at +infinity
C18_Witness ==
    /\ last.op = "render"
    /\ \E p \in Pixels(width, height) :
        /\ last.prevDepth[Cell(p)] # INFINITY
        /\ RLt(depth[Cell(p)], last.prevDepth[Cell(p)])
        /\ color[Cell(p)] # last.prevColor[Cell(p)]
    /\ \E p \in Pixels(width, height) : depth[Cell(p)] = INFINITY

\* C19: draw_line returns for every pair of endpoints, however far outside the
\* buffer: none of its i32 computations overflows, and the loop has reached
\* (x1, y1) after max(|dx|, |dy|) steps (followed here where that is at most
\* LineFuel).
C19_LineTerminates ==
    last.op = "draw_line" =>
        /\ ~last.result.overflowed
        /\ status # "panic"
        /\ LET adx == Abs(AsI32(last.args.end.x) - AsI32(last.args.start.x))
               ady == Abs(AsI32(last.args.end.y) - AsI32(last.args.start.y))
               n == IF adx >= ady THEN adx ELSE ady
           IN  n <= LineFuel => status = "ok" /\ last.result.steps = n

\* the colours of the instances of a frame drawn from one theme: the sun, each
\* planet followed by its ring if it has one, and the ship
RECURSIVE PlanetColors(_, _)
PlanetColors(descriptors, idx) ==
    IF idx > Len(descriptors) THEN <<>>
    ELSE <<descriptors[idx].color>>
         \o (IF descriptors[idx].ring.ok THEN <<descriptors[idx].ring.value.color>> ELSE <<>>)
         \o PlanetColors(descriptors, idx + 1)
ThemeColors(theme) ==
    <<theme.sun_color>> \o PlanetColors(theme.planets, 1) \o <<theme.ship_color>>

\* C17: pressing T advances theme_index by one modulo the number of themes
\* (and nothing else changes it), and in every frame the palette of
\* begin_frame, the orbit colours of draw_orbits, the colours of the sun, of
\* the planets and rings and of the ship among the instances of render, and
\* the colour and intensity of its light all are those of THEMES[theme_index].
C17_ThemeSwitchAtomic ==
    last.op = "frame" =>
        LET theme == THEMES[app.theme_index + 1]
            instances == last.render.instances
        IN  /\ app.theme_index
                  = (app.frame.theme_index + (IF "T" \in app.frame.keys THEN 1 ELSE 0))
                        % Len(THEMES)
            /\ palette = theme.palette
            /\ last.begin_frame = theme.palette
            /\ Len(last.draw_orbits) = Len(theme.planets)
            /\ \A i \in 1..Len(theme.planets) :
                  last.draw_orbits[i] = theme.planets[i].orbit_color
            /\ Len(instances) = Len(ThemeColors(theme))
            /\ \A i \in 1..Len(instances) :
                  instances[i].material.color = ThemeColors(theme)[i]
            /\ last.render.light.color = theme.light_color
            /\ last.render.light.intensity = theme.light_intensity

\* a frame in which T switched back to the first theme while a warp was in
\* progress
C17_Witness ==
    /\ last.op = "frame"
    /\ "T" \in app.frame.keys
    /\ app.frame.theme_index = 1
    /\ app.theme_index = 0
    /\ app.frame.warp.ok

\* what a frame that began with a warp in progress did
WarpContinued ==
    LET warp == app.frame.warp.value
        progress == RAdd(warp.progress, app.frame.dt)
        t == RMin(RDiv(progress, warp.duration), R(1))
    IN  /\ ~app.frame.handle_input
        /\ app.camera.yaw = app.frame.camera.yaw
        /\ app.camera.pitch = app.frame.camera.pitch
        /\ ~app.frame.requested.ok
        /\ app.frame.moved = Some(Vec3Lerp(warp.start, warp.target, Smoothstep(t)))
        /\ IF RGe(progress, warp.duration) THEN ~app.warp.ok
           ELSE app.warp = Some([warp EXCEPT !.progress = progress])

\* C20: a frame that begins with a warp in progress does not call
\* handle_input (yaw and pitch stay), ignores the warp keys, adds dt to the
\* progress, sets the camera position to lerp(start, target,
\* smoothstep(min(progress / duration, 1))), and clears the warp if
\* progress >= duration and otherwise keeps its start, target and duration; a
\* frame that began without a warp called handle_input and starts one, with
\* progress 0, only for the warp key it detected; and with dt > 0 in every
\* frame a warp in progress eventually ends.
C20_WarpRunsToItsEnd ==
    /\ [](last.op = "frame" /\ app.frame.warp.ok => WarpContinued)
    /\ [](last.op = "frame" /\ ~app.frame.warp.ok /\ app.warp.ok
              => /\ app.frame.handle_input
                 /\ app.frame.requested.ok
                 /\ app.warp.value.target = app.frame.requested.value
                 /\ app.warp.value.progress = R(0)
                 /\ app.warp.value.duration = WARP_DURATION)
    /\ (app.warp.ok ~> ~app.warp.ok)

\* the frame that ends a warp, past its duration, with warp keys pressed
C20_Witness ==
    /\ last.op = "frame"
    /\ app.frame.warp.ok
    /\ ~app.warp.ok
    /\ {"W", "Key1"} \subseteq app.frame.keys
    /\ RGt(RAdd(app.frame.warp.value.progress, app.frame.dt), WARP_DURATION)

\* update_planets, what it leaves in a planet: the position on the orbit
\* circle at orbit_angle, the transform translation * rotation_y *
\* rotation_x * scale from it, and the ring's transform without the scale
PlanetPlaced(planet) ==
    /\ planet.position = Vec3(NMul(Cos(Turns(planet.orbit_angle)), planet.orbit_radius),
                              R(0),
                              NMul(Sin(Turns(planet.orbit_angle)), planet.orbit_radius))
    /\ planet.transform =
           MatMul(MatMul(MatMul(Translation(planet.position), RotationY(planet.rotation)),
                         RotationX(planet.axial_tilt)),
                  Scale(Vec3(planet.radius, planet.radius, planet.radius)))
    /\ planet.ring.ok =>
           planet.ring.value.transform =
               MatMul(MatMul(Translation(planet.position), RotationY(planet.rotation)),
                      RotationX(planet.axial_tilt))
    /\ ~(planet.transform = Identity /\ planet.position = ZERO)

\* C21: at every render call of the main loop, the frame of a theme switch
\* included, the instances between the sun's and the ship's are those of
\* the planets, and every planet has the position on its orbit circle and
\* the transform translation(position) * rotation_y(rotation) *
\* rotation_x(axial_tilt) * scale(radius), its ring the same without the
\* scale; none has the identity transform and the zero position of
\* Planet::from_descriptor.
C21_PlanetsPlacedAtRender ==
    last.op = "frame" =>
        /\ SubSeq(last.render.instances, 2, Len(last.render.instances) - 1)
               = PlanetsInstances(app.planets, 1)
        /\ \A i \in 1..Len(app.planets) : PlanetPlaced(app.planets[i])

====
